---- MODULE Spec2Model ----
(***************************************************************************)
(* The data-cleaning session of the web-scraper dataset builder:           *)
(* DataCleaner (src/cleaner.py) and its undo/redo ledger CleaningHistory   *)
(* (src/models.py).                                                        *)
(*                                                                         *)
(* A pandas DataFrame is a record                                          *)
(*   [columns, dtypes, index, values]                                      *)
(* columns : sequence of column names, dtypes : their dtypes,              *)
(* index   : sequence of row labels,   values : sequence of rows, each a   *)
(* sequence of cells.  A cell is [k, n, s]: k = "null" | "int" | "str",    *)
(* n the number of an "int" cell, s the characters of a "str" cell.        *)
(* DataFrame.copy() is a deep copy; datasets are values here, so a copy is *)
(* the value itself.                                                       *)
(*                                                                         *)
(* Python lists are 0-based and TLA+ sequences 1-based: the list element   *)
(* xs[i] is xs[i + 1] here, the slice xs[:k] is SubSeq(xs, 1, k).          *)
(***************************************************************************)
EXTENDS Integers, Sequences, FiniteSets, TLC

\* ------------------------------------------------------------------ bounds
\* CleaningHistory.max_snapshots of the sessions explored (the field's
\* default is 20; the ledger's code is the same for every positive value).
max_snapshots == 3
\* Number of CleaningOperation records created in one run.
MaxOps == 4
\* The same, for the runs of the transform library.
MaxLibraryOps == 3

\* ------------------------------------------------------------- small helpers
Min(a, b) == IF a < b THEN a ELSE b

\* Optional[...] arguments: None, or a value.
None == <<>>
Some(x) == <<x>>
IsNone(o) == o = <<>>

Range(s) == {s[i] : i \in 1..Len(s)}

\* The positions of 1..n that are in S, in increasing order.
Positions(n, S) == SelectSeq([i \in 1..n |-> i], LAMBDA i : i \in S)

\* ------------------------------------------------------------------ datasets
NullCell == [k |-> "null", n |-> 0, s |-> <<>>]
IntCell(x) == [k |-> "int", n |-> x, s |-> <<>>]
StrCell(c) == [k |-> "str", n |-> 0, s |-> c]

\* pd.DataFrame()
EmptyDataFrame == [columns |-> <<>>, dtypes |-> <<>>, index |-> <<>>, values |-> <<>>]

\* len(df)
NRows(df) == Len(df.index)

\* Position of a column name in df.columns (0 when absent).
ColPos(df, name) ==
    IF \E j \in 1..Len(df.columns) : df.columns[j] = name
    THEN CHOOSE j \in 1..Len(df.columns) :
            /\ df.columns[j] = name
            /\ \A m \in 1..(j - 1) : df.columns[m] # name
    ELSE 0

\* [col for col in cols if col not in df.columns]
missing_cols(df, cols) == SelectSeq(cols, LAMBDA c : c \notin Range(df.columns))

\* The rows at the given positions, keeping their labels (boolean-mask and
\* drop selections of pandas keep the index labels of the rows they keep).
TakeRows(df, pos) ==
    [df EXCEPT !.index = [j \in 1..Len(pos) |-> df.index[pos[j]]],
               !.values = [j \in 1..Len(pos) |-> df.values[pos[j]]]]

\* df[cols]: the named columns, in the given order.
TakeCols(df, cols) ==
    [columns |-> cols,
     dtypes |-> [j \in 1..Len(cols) |-> df.dtypes[ColPos(df, cols[j])]],
     index |-> df.index,
     values |-> [i \in 1..NRows(df) |->
                    [j \in 1..Len(cols) |-> df.values[i][ColPos(df, cols[j])]]]]

\* The cells of row i in the named columns.
RowKey(df, i, cols) == [j \in 1..Len(cols) |-> df.values[i][ColPos(df, cols[j])]]

\* df[cols].isnull().sum().sum()
NullCount(df, cols) ==
    Cardinality({<<i, j>> \in (1..NRows(df)) \X (1..Len(cols)) :
                    df.values[i][ColPos(df, cols[j])].k = "null"})

\* drop_duplicates that drops, of the rows equal to an earlier one, only the
\* last.
drop_duplicates_one_per_pass(df, subset, keep) ==
    LET cols == IF IsNone(subset) THEN df.columns ELSE subset[1]
        key(i) == RowKey(df, i, cols)
        kept(i) == \/ \A j \in 1..(i - 1) : key(j) # key(i)
                   \/ \E j \in (i + 1)..NRows(df) : key(j) = key(i)
    IN TakeRows(df, Positions(NRows(df), {i \in 1..NRows(df) : kept(i)}))

\* DataFrame.drop_duplicates(subset, keep): NaN cells compare equal.
drop_duplicates(df, subset, keep) ==
    LET cols == IF IsNone(subset) THEN df.columns ELSE subset[1]
        key(i) == RowKey(df, i, cols)
        kept(i) ==
            CASE keep = "first" -> \A j \in 1..(i - 1) : key(j) # key(i)
              [] keep = "last" -> \A j \in (i + 1)..NRows(df) : key(j) # key(i)
              [] OTHER -> \A j \in 1..NRows(df) : j # i => key(j) # key(i)
    IN TakeRows(df, Positions(NRows(df), {i \in 1..NRows(df) : kept(i)}))

\* DataFrame.dropna(subset=cols): drops the rows with a null in any of cols.
dropna(df, cols) ==
    TakeRows(df, Positions(NRows(df),
        {i \in 1..NRows(df) : \A j \in 1..Len(cols) : RowKey(df, i, cols)[j].k # "null"}))

\* df[name] = cells: assigns a whole column of an existing name, with the
\* dtype of the assigned Series.
SetColumn(df, name, dtype, cells) ==
    LET p == ColPos(df, name)
    IN [df EXCEPT !.dtypes = [@ EXCEPT ![p] = dtype],
                  !.values = [i \in 1..NRows(df) |-> [@[i] EXCEPT ![p] = cells[i]]]]

\* df[name] as the sequence of its cells, and its dtype.
Column(df, name) == [i \in 1..NRows(df) |-> df.values[i][ColPos(df, name)]]
DType(df, name) == df.dtypes[ColPos(df, name)]

\* df.drop(columns=cols)
DropCols(df, cols) == TakeCols(df, SelectSeq(df.columns, LAMBDA c : c \notin Range(cols)))

\* ---------------------------------------------------------------------- text
\* A str is the sequence of its characters.  The characters that occur are
\* ASCII letters and digits, the blank, tab and newline, and punctuation;
\* no number is written with a sign, a non-zero fraction or an exponent.
LowerLetters == <<"a", "b", "c", "d", "e", "n", "o">>
UpperLetters == <<"A", "B", "C", "D", "E", "N", "O">>
Digits == <<"0", "1", "2", "3", "4", "5", "6", "7", "8", "9">>

IsLower(c) == c \in Range(LowerLetters)
IsUpper(c) == c \in Range(UpperLetters)
IsDigit(c) == c \in Range(Digits)
\* \s of the regular expressions.
IsSpace(c) == c \in {" ", "\t", "\n", "\r"}

LetterPos(letters, c) == CHOOSE i \in 1..Len(letters) : letters[i] = c

\* ord(c): the characters in the order of their code points.
char_code(c) ==
    LetterPos(<<"\t", "\n", "\r", " ", "!", "$", "(", ",", "-", ".">> \o Digits
              \o <<"<", ">", "@">> \o UpperLetters \o <<"_">> \o LowerLetters, c)
lower_char(c) == IF IsUpper(c) THEN LowerLetters[LetterPos(UpperLetters, c)] ELSE c
upper_char(c) == IF IsLower(c) THEN UpperLetters[LetterPos(LowerLetters, c)] ELSE c

\* str.lower(), str.upper()
lower(s) == [i \in 1..Len(s) |-> lower_char(s[i])]
upper(s) == [i \in 1..Len(s) |-> upper_char(s[i])]

\* str.title(): a letter that follows a letter is lowered, any other letter
\* is raised.
title(s) ==
    [i \in 1..Len(s) |->
        IF i > 1 /\ (IsLower(s[i - 1]) \/ IsUpper(s[i - 1]))
        THEN lower_char(s[i]) ELSE upper_char(s[i])]

\* str.strip()
strip(s) ==
    LET inside == {i \in 1..Len(s) : ~IsSpace(s[i])}
    IN IF inside = {} THEN <<>>
       ELSE LET first == CHOOSE i \in inside : \A j \in inside : i <= j
                final == CHOOSE i \in inside : \A j \in inside : j <= i
            IN SubSeq(s, first, final)

\* re.sub(r'\s+', ' ', s): every run of whitespace becomes one blank.
collapse_spaces(s) ==
    LET keep == {i \in 1..Len(s) : ~IsSpace(s[i]) \/ i = 1 \/ ~IsSpace(s[i - 1])}
        pos == Positions(Len(s), keep)
    IN [j \in 1..Len(pos) |-> IF IsSpace(s[pos[j]]) THEN " " ELSE s[pos[j]]]

\* re.sub of a pattern that matches single characters (or runs of them) by
\* the empty string: the characters of the class are removed.
\* [^\w\s], \d+ and [^\x20-\x7E].
remove_special_chars(s) ==
    SelectSeq(s, LAMBDA c : IsLower(c) \/ IsUpper(c) \/ IsDigit(c) \/ c = "_" \/ IsSpace(c))
remove_numbers(s) == SelectSeq(s, LAMBDA c : ~IsDigit(c))
remove_non_printable(s) == SelectSeq(s, LAMBDA c : c \notin {"\t", "\n", "\r"})

\* re.sub(r'<[^>]+>', '', s): scanning from the left, a '<' with a first
\* '>' at least two places after it is a tag and is removed with everything
\* up to that '>'.  The text is s from position i on.
RECURSIVE remove_html_tags(_, _)
remove_html_tags(s, i) ==
    IF i > Len(s) THEN <<>>
    ELSE LET closers == {j \in (i + 1)..Len(s) : s[j] = ">"}
             close == CHOOSE j \in closers : \A m \in closers : j <= m
         IN IF s[i] = "<" /\ closers # {} /\ close >= i + 2
            THEN remove_html_tags(s, close + 1)
            ELSE <<s[i]>> \o remove_html_tags(s, i + 1)

\* str(n) of an int n >= 0.
RECURSIVE digits_of(_)
digits_of(n) == IF n < 10 THEN <<Digits[n + 1]>> ELSE Append(digits_of(n \div 10), Digits[(n % 10) + 1])

\* The number a str of digits denotes.
RECURSIVE int_of_digits(_)
int_of_digits(s) ==
    IF s = <<>> THEN 0
    ELSE 10 * int_of_digits(SubSeq(s, 1, Len(s) - 1)) + (LetterPos(Digits, s[Len(s)]) - 1)

\* The text of a number for pd.to_numeric: digits, then possibly ".0...",
\* with whitespace around them allowed.  The numbers of the model are whole.
\* Both operators take the text t already stripped of that whitespace.
number_text(t) ==
    LET dots == {i \in 1..Len(t) : t[i] = "."}
    IN IF dots = {} THEN t ELSE SubSeq(t, 1, (CHOOSE i \in dots : \A j \in dots : i <= j) - 1)

is_numeric_str(t) ==
    \E whole \in {number_text(t)} :
        /\ whole # <<>>
        /\ \A i \in 1..Len(whole) : IsDigit(whole[i])
        /\ Len(t) > Len(whole) =>
               /\ Len(t) > Len(whole) + 1
               /\ \A i \in (Len(whole) + 2)..Len(t) : t[i] = "0"

\* pd.to_numeric(errors='coerce') of one cell.
to_numeric(cell) ==
    CASE cell.k = "int" -> cell
      [] cell.k = "str" ->
             CHOOSE out \in {IF is_numeric_str(t) THEN IntCell(int_of_digits(number_text(t)))
                             ELSE NullCell : t \in {strip(cell.s)}} : TRUE
      [] OTHER -> NullCell

\* astype(str) of one cell: str(None) in an object column, str(pd.NA) in a
\* string or Int64 one, str(nan) in the others; a float is written with its
\* fraction.
astype_str(cell, dtype) ==
    CASE cell.k = "str" -> cell
      [] cell.k = "int" -> StrCell(digits_of(cell.n) \o (IF dtype = "float64" THEN <<".", "0">> ELSE <<>>))
      [] OTHER -> CASE dtype = "object" -> StrCell(<<"N", "o", "n", "e">>)
                    [] dtype \in {"string", "Int64"} -> StrCell(<<"<", "N", "A", ">">>)
                    [] OTHER -> StrCell(<<"n", "a", "n">>)

\* Series.astype(str)
column_astype_str(cells, dtype) == [i \in 1..Len(cells) |-> astype_str(cells[i], dtype)]

\* One text-cleaning operation of clean_text on a str; an unknown operation
\* is logged and changes nothing.
text_operation(s, operation) ==
    CASE operation = "remove_special_chars" -> remove_special_chars(s)
      [] operation = "remove_extra_spaces" -> strip(collapse_spaces(s))
      [] operation = "lowercase" -> lower(s)
      [] operation = "uppercase" -> upper(s)
      [] operation = "title_case" -> title(s)
      [] operation = "remove_numbers" -> remove_numbers(s)
      [] operation = "remove_html_tags" -> remove_html_tags(s, 1)
      [] operation = "normalize_whitespace" ->
            strip(collapse_spaces([i \in 1..Len(s) |->
                                      IF s[i] \in {"\n", "\r", "\t"} THEN " " ELSE s[i]]))
      [] OTHER -> s

\* The operations applied in order, then the closing whitespace clean-up
\* when a removal operation was among them.
RECURSIVE apply_text_operations(_, _)
apply_text_operations(s, operations) ==
    IF operations = <<>> THEN s
    ELSE CHOOSE out \in {apply_text_operations(next, Tail(operations)) :
                            next \in {text_operation(s, Head(operations))}} : TRUE

\* The operations alone, without the closing clean-up.
clean_str_as_requested(s, operations) == apply_text_operations(s, operations)

clean_str(s, operations) ==
    CHOOSE out \in
        {IF Range(operations) \cap {"remove_special_chars", "remove_numbers", "remove_html_tags"} # {}
         THEN strip(collapse_spaces(cleaned)) ELSE cleaned :
            cleaned \in {apply_text_operations(s, operations)}} : TRUE

\* original_values != new_values, counted: a null differs from everything,
\* itself included.
changed_count(before, after) ==
    Cardinality({i \in 1..Len(before) :
        before[i].k = "null" \/ after[i].k = "null" \/ before[i] # after[i]})

\* ------------------------------------------------- CleaningOperation records
\* CleaningOperation(...): timestamp defaults to datetime.now(), modelled by
\* the reading of a clock that advances with every record created.  The
\* parameters and description fields repeat the call's arguments and are
\* left out.
CleaningOperation(operation_type, target_columns, applied, records_affected, now) ==
    [operation_type |-> operation_type,
     target_columns |-> target_columns,
     applied |-> applied,
     records_affected |-> records_affected,
     timestamp |-> now]

\* ----------------------------------------------------------- CleaningHistory
\* CleaningHistory(): the dataclass defaults.
NewCleaningHistory ==
    [operations |-> <<>>,
     data_snapshots |-> <<>>,
     current_index |-> 0,
     max_snapshots |-> max_snapshots]

\* The slice cut at the cursor, as the operations are: data_snapshots[:current_index].
kept_snapshots_to_cursor(h) ==
    SubSeq(h.data_snapshots, 1, Min(h.current_index, Len(h.data_snapshots)))

\* The slice data_snapshots[:current_index + 1] that add_operation keeps
\* when it discards the redo branch (a Python slice stops at the list's end).
kept_snapshots(h) ==
    SubSeq(h.data_snapshots, 1, Min(h.current_index + 1, Len(h.data_snapshots)))

\* add_operation with the eviction keyed to the operations list.
add_operation_by_operations(h, operation, data_snapshot) ==
    LET cut == h.current_index < Len(h.operations)
        ops2 == Append(IF cut THEN SubSeq(h.operations, 1, h.current_index)
                       ELSE h.operations, operation)
        snaps2 == Append(IF cut THEN kept_snapshots(h) ELSE h.data_snapshots,
                         data_snapshot)
    IN IF Len(ops2) > h.max_snapshots
       THEN [h EXCEPT !.operations = Tail(ops2),
                      !.data_snapshots = Tail(snaps2),
                      !.current_index = Len(ops2) - 1]
       ELSE [h EXCEPT !.operations = ops2,
                      !.data_snapshots = snaps2,
                      !.current_index = Len(ops2)]

\* CleaningHistory.add_operation
add_operation(h, operation, data_snapshot) ==
    LET cut == h.current_index < Len(h.operations)
        ops1 == IF cut THEN SubSeq(h.operations, 1, h.current_index)
                ELSE h.operations
        snaps1 == IF cut THEN kept_snapshots(h) ELSE h.data_snapshots
        ops2 == Append(ops1, operation)
        snaps2 == Append(snaps1, data_snapshot)
        idx2 == Len(ops2)
    IN IF Len(snaps2) > h.max_snapshots
       THEN [h EXCEPT !.operations = Tail(ops2),
                      !.data_snapshots = Tail(snaps2),
                      !.current_index = idx2 - 1]
       ELSE [h EXCEPT !.operations = ops2,
                      !.data_snapshots = snaps2,
                      !.current_index = idx2]

\* can_undo with the guard off by one: cursor 0 counts as undoable.
can_undo_from_zero(h) == h.current_index >= 0

\* CleaningHistory.can_undo
can_undo(h) == h.current_index > 0

\* can_redo with the guard off by one: redo past the newest operation.
can_redo_past_end(h) == h.current_index <= Len(h.operations)

\* CleaningHistory.can_redo
can_redo(h) == h.current_index < Len(h.operations)

\* CleaningHistory.get_current_data: the class body defines it twice and the
\* later definition (models.py:549) is the one bound to the class.  A
\* negative list index counts from the end, and raises IndexError below
\* -len(list).
get_current_data_raises(h) ==
    h.current_index < 0 /\ -h.current_index > Len(h.data_snapshots)

get_current_data(h) ==
    IF h.current_index < Len(h.data_snapshots)
    THEN IF h.current_index >= 0
         THEN h.data_snapshots[h.current_index + 1]
         ELSE h.data_snapshots[Len(h.data_snapshots) + h.current_index + 1]
    ELSE EmptyDataFrame

\* ---------------------------------------------------------- Transform Library
\* The outcome of the body of a transform, up to its add_operation call:
\* either it raised (the except clause reports and re-raises), or it built
\* the new self.data and the fields of the record to append.
Raised == [raised |-> TRUE, partial |-> FALSE, data |-> EmptyDataFrame, operation_type |-> "",
           target_columns |-> <<>>, records_affected |-> 0]
Done(df, operation_type, target_columns, records_affected) ==
    [raised |-> FALSE, partial |-> FALSE, data |-> df, operation_type |-> operation_type,
     target_columns |-> target_columns, records_affected |-> records_affected]

\* DataCleaner.remove_duplicates (drop_duplicates raises KeyError on a subset
\* column the frame does not have).
remove_duplicates(df, strategy, subset) ==
    IF strategy \notin {"first", "last", "all"} THEN Raised
    ELSE IF ~IsNone(subset) /\ missing_cols(df, subset[1]) # <<>> THEN Raised
    ELSE LET new == drop_duplicates(df, subset, IF strategy = "all" THEN "none" ELSE strategy)
         IN Done(new, "remove_duplicates",
                 IF IsNone(subset) \/ subset = Some(<<>>) THEN new.columns ELSE subset[1],
                 NRows(df) - NRows(new))

\* A transform that assigns columns of self.data one at a time and raised
\* after some of them were assigned: self.data is left as df.
RaisedAfter(df) == [Raised EXCEPT !.partial = TRUE, !.data = df]

\* The numbers of a column, nulls skipped, in row order.
numbers(cells) ==
    LET present == SelectSeq(cells, LAMBDA c : c.k = "int")
    IN [i \in 1..Len(present) |-> present[i].n]

RECURSIVE sum(_)
sum(xs) == IF xs = <<>> THEN 0 ELSE Head(xs) + sum(Tail(xs))

\* The k-th smallest of xs, 1 <= k <= Len(xs).
kth_smallest(xs, k) ==
    CHOOSE v \in Range(xs) :
        /\ Cardinality({i \in 1..Len(xs) : xs[i] < v}) < k
        /\ k <= Cardinality({i \in 1..Len(xs) : xs[i] <= v})

\* Series.mean() and Series.median(): NaN for a column without numbers.
\* The datasets drawn keep both whole.
mean(cells) ==
    LET xs == numbers(cells)
    IN IF xs = <<>> THEN NullCell ELSE IntCell(sum(xs) \div Len(xs))

median(cells) ==
    LET xs == numbers(cells)
        n == Len(xs)
    IN IF n = 0 THEN NullCell
       ELSE IF n % 2 = 1 THEN IntCell(kth_smallest(xs, (n + 1) \div 2))
       ELSE IntCell((kth_smallest(xs, n \div 2) + kth_smallest(xs, n \div 2 + 1)) \div 2)

\* cell order of a sorted Series: numbers by value, strs by their characters.
RECURSIVE str_less(_, _)
str_less(s, t) ==
    IF t = <<>> THEN FALSE
    ELSE IF s = <<>> THEN TRUE
    ELSE IF Head(s) = Head(t) THEN str_less(Tail(s), Tail(t))
    ELSE char_code(Head(s)) < char_code(Head(t))

\* Series.mode()[0]: the smallest of the most frequent values, nulls
\* skipped; None when the column holds nulls only.  Modes that cannot be
\* sorted (numbers with strs) stay in the order of their first occurrence.
mode(cells) ==
    LET present == {c \in Range(cells) : c.k # "null"}
        count(c) == Cardinality({i \in 1..Len(cells) : cells[i] = c})
        modes == {c \in present : \A d \in present : count(d) <= count(c)}
        cell_less(a, b) == IF a.k = "int" THEN a.n < b.n ELSE str_less(a.s, b.s)
        first_at(c) == CHOOSE i \in 1..Len(cells) : cells[i] = c /\ \A m \in 1..(i - 1) : cells[m] # c
    IN IF present = {} THEN None
       ELSE IF \A c, d \in modes : c.k = d.k
       THEN Some(CHOOSE c \in modes : \A d \in modes : d # c => cell_less(c, d))
       ELSE Some(CHOOSE c \in modes : \A d \in modes : first_at(c) <= first_at(d))

\* fillna that blanks the column.
fillna_blank(cells, value) == [i \in 1..Len(cells) |-> NullCell]

\* Series.fillna(value)
fillna(cells, value) == [i \in 1..Len(cells) |-> IF cells[i].k = "null" THEN value ELSE cells[i]]

\* self.data[col].fillna(value, inplace=True): a fill of the Series that
\* self.data[col] returned.  Whether the frame sees it depends on the pandas
\* the program runs on (copy-on-write or not): inplace says which.  A str
\* put in a numeric column makes it an object column.
fill_column(df, col, value, inplace) ==
    IF ~inplace \/ value.k = "null" \/ \A i \in 1..NRows(df) : Column(df, col)[i].k # "null"
    THEN df
    ELSE SetColumn(df, col,
                   IF value.k = "str" /\ DType(df, col) \in {"int64", "float64"}
                   THEN "object" ELSE DType(df, col),
                   fillna(Column(df, col), value))

\* The fill loops of handle_missing_values over the columns, in order;
\* what(col) is the value for column col, None to skip the column.
RECURSIVE fill_columns(_, _, _, _, _)
fill_columns(df, columns, strategy, fill_value, inplace) ==
    IF columns = <<>> THEN df
    ELSE LET col == Head(columns)
             numeric == DType(df, col) \in {"int64", "float64"}
             value ==
                CASE strategy = "fill_mean" ->
                        IF numeric THEN Some(mean(Column(df, col))) ELSE None
                  [] strategy = "fill_median" ->
                        IF numeric THEN Some(median(Column(df, col))) ELSE None
                  [] strategy = "fill_mode" -> mode(Column(df, col))
                  [] strategy = "fill_custom" -> fill_value
         IN CHOOSE out \in
                {fill_columns(filled, Tail(columns), strategy, fill_value, inplace) :
                    filled \in {IF IsNone(value) THEN df
                                ELSE fill_column(df, col, value[1], inplace)}} : TRUE

fill_strategies == {"fill_mean", "fill_median", "fill_mode", "fill_custom"}
other_strategies == {"forward_fill", "backward_fill", "interpolate", "knn_impute"}

\* DataCleaner.handle_missing_values; a strategy the method does not know
\* raises ValueError.  forward_fill, backward_fill, interpolate and
\* knn_impute are not drawn and have no case here.
handle_missing_values(df, strategy, columns_arg, fill_value, inplace) ==
    LET columns == IF IsNone(columns_arg) THEN df.columns ELSE columns_arg[1]
        finish(new) == Done(new, "handle_missing_values", columns,
                            NullCount(df, columns) - NullCount(new, columns))
    IN IF missing_cols(df, columns) # <<>> THEN Raised
       ELSE CASE strategy = "drop" -> finish(dropna(df, columns))
              [] strategy = "fill_custom" /\ IsNone(fill_value) -> Raised
              [] strategy \in fill_strategies /\ ~(strategy = "fill_custom" /\ IsNone(fill_value)) ->
                    finish(fill_columns(df, columns, strategy, fill_value, inplace))
              [] strategy \notin {"drop"} \cup fill_strategies \cup other_strategies -> Raised

\* DataCleaner.rename_columns; column_mapping is the dict as the sequence of
\* its <<old name, new name>> items.  DataFrame.rename gives every column
\* named by a key the key's value and leaves the others.
mapping_keys(column_mapping) == [i \in 1..Len(column_mapping) |-> column_mapping[i][1]]
mapping_values(column_mapping) == [i \in 1..Len(column_mapping) |-> column_mapping[i][2]]

renamed(column_mapping, name) ==
    IF name \in Range(mapping_keys(column_mapping))
    THEN column_mapping[LetterPos(mapping_keys(column_mapping), name)][2]
    ELSE name

rename_columns(df, column_mapping) ==
    LET target_names == mapping_values(column_mapping)
    IN IF missing_cols(df, mapping_keys(column_mapping)) # <<>> THEN Raised
       ELSE IF Len(target_names) # Cardinality(Range(target_names)) THEN Raised
       ELSE Done([df EXCEPT !.columns = [j \in 1..Len(df.columns) |->
                                            renamed(column_mapping, df.columns[j])]],
                 "rename_columns", mapping_keys(column_mapping), 0)

\* Series.quantile(q) for q = quarters / 4, times 4: linear interpolation
\* between the two nearest of the sorted numbers xs (Len(xs) >= 1).
quantile4(xs, quarters) ==
    LET h == quarters * (Len(xs) - 1)
        k == h \div 4
        r == h % 4
        lo == kth_smallest(xs, k + 1)
        hi == IF r = 0 THEN lo ELSE kth_smallest(xs, k + 2)
    IN 4 * lo + r * (hi - lo)

\* The rows of df (by position) that column col flags as outliers; the
\* threshold is given doubled (threshold2 = 3 for 1.5).  A comparison with
\* NaN is False: null cells are never flagged, and a column without numbers
\* (or, for zscore, with fewer than two or with zero deviation) flags none.
\* iqr:    x < Q1 - t * IQR or x > Q3 + t * IQR, every term times 8;
\* zscore: |x - mean| / std > t, squared and cleared of fractions with
\*         mean = S / n and std^2 = sum((x_i - mean)^2) / (n - 1).
col_outliers(df, col, method, threshold2) ==
    LET cells == Column(df, col)
        xs == numbers(cells)
        n == Len(xs)
        Q1 == quantile4(xs, 1)
        Q3 == quantile4(xs, 3)
        lower_bound8 == 2 * Q1 - threshold2 * (Q3 - Q1)
        upper_bound8 == 2 * Q3 + threshold2 * (Q3 - Q1)
        S == sum(xs)
        dev2 == sum([i \in 1..n |-> (n * xs[i] - S) * (n * xs[i] - S)])
    IN {i \in 1..NRows(df) :
          /\ cells[i].k = "int"
          /\ IF method = "iqr"
             THEN 8 * cells[i].n < lower_bound8 \/ 8 * cells[i].n > upper_bound8
             ELSE /\ n >= 2
                  /\ dev2 > 0
                  /\ 4 * (n - 1) * (n * cells[i].n - S) * (n * cells[i].n - S)
                         > threshold2 * threshold2 * dev2}

\* A boolean Series is the set of the labels it has together with the set
\* of the labels it is True at.
\* outlier_mask | col_outliers: the operands are aligned on the union of
\* their labels.  At a label the right operand lacks it counts as False; at
\* a label the left operand lacks the result is False whatever the right
\* operand holds (NaN | x is NaN, and NaN is then filled with False).
or_aligned(mask, other) ==
    [labels |-> mask.labels \cup other.labels,
     true |-> mask.true \cup (other.true \cap mask.labels)]

\* The loop of remove_outliers over the numeric columns: outlier_mask starts
\* as pd.Series([False] * len(df)), labelled 0..len-1, and every column's
\* mask, labelled like df, is or-ed into it.
RECURSIVE outlier_mask(_, _, _, _)
outlier_mask(df, numeric_cols, method, threshold2) ==
    IF numeric_cols = <<>> THEN [labels |-> 0..(NRows(df) - 1), true |-> {}]
    ELSE LET col == numeric_cols[Len(numeric_cols)]
         IN or_aligned(outlier_mask(df, SubSeq(numeric_cols, 1, Len(numeric_cols) - 1),
                                    method, threshold2),
                       [labels |-> Range(df.index),
                        true |-> {df.index[i] : i \in col_outliers(df, col, method, threshold2)}])

\* DataCleaner.remove_outliers.  df[~mask] takes the rows whose label the
\* mask is False at and raises when the mask lacks a label of df.
remove_outliers(df, columns, method, threshold2) ==
    LET numeric_cols == SelectSeq(columns, LAMBDA c :
            c \in Range(df.columns) /\ DType(df, c) \in {"int64", "float64"})
        mask == outlier_mask(df, numeric_cols, method, threshold2)
        new == TakeRows(df, Positions(NRows(df),
                   {i \in 1..NRows(df) : df.index[i] \notin mask.true}))
    IN IF numeric_cols = <<>> THEN Raised
       ELSE IF method \notin {"iqr", "zscore"} THEN Raised
       ELSE IF ~(Range(df.index) \subseteq mask.labels) THEN Raised
       ELSE Done(new, "remove_outliers", numeric_cols, NRows(df) - NRows(new))

\* Whether Series.str raises AttributeError ("Can only use .str accessor
\* with string values"): an object column whose values are numbers only.
str_accessor_raises(cells) ==
    /\ \E i \in 1..Len(cells) : cells[i].k = "int"
    /\ \A i \in 1..Len(cells) : cells[i].k # "str"

text_operation_names ==
    {"remove_special_chars", "remove_extra_spaces", "lowercase", "uppercase", "title_case",
     "remove_numbers", "remove_html_tags", "normalize_whitespace"}

\* One round of the loop of clean_text: the column as the round leaves it.
\* A Series.str method leaves null what is not a str.
cleaned_column(df, col, operations) ==
    LET cells == IF DType(df, col) # "object"
                 THEN column_astype_str(Column(df, col), DType(df, col))
                 ELSE Column(df, col)
    IN IF Range(operations) \cap text_operation_names = {} THEN cells
       ELSE [i \in 1..Len(cells) |->
                IF cells[i].k = "str" THEN StrCell(clean_str(cells[i].s, operations))
                ELSE NullCell]

\* The loop of clean_text over the columns still to do; done is the
\* records_affected counted so far.  The result is <<raised, df, count>>.
RECURSIVE clean_text_loop(_, _, _, _)
clean_text_loop(df, columns, operations, done) ==
    IF columns = <<>> THEN <<FALSE, df, done>>
    ELSE LET col == Head(columns)
             original_values == IF DType(df, col) # "object"
                                THEN column_astype_str(Column(df, col), DType(df, col))
                                ELSE Column(df, col)
             converted == SetColumn(df, col, "object", original_values)
             new == cleaned_column(df, col, operations)
         IN IF /\ Range(operations) \cap text_operation_names # {}
               /\ str_accessor_raises(original_values)
            THEN <<TRUE, converted, done>>
            ELSE CHOOSE out \in
                     {clean_text_loop(next, Tail(columns), operations,
                                      done + changed_count(original_values, Column(next, col))) :
                         next \in {SetColumn(df, col, "object", new)}} : TRUE

\* DataCleaner.clean_text
clean_text(df, columns, operations) ==
    IF missing_cols(df, columns) # <<>> THEN Raised
    ELSE LET out == clean_text_loop(df, columns, operations, 0)
         IN IF out[1] THEN RaisedAfter(out[2])
            ELSE Done(out[2], "clean_text", columns, out[3])

\* pd.to_numeric(series, errors='coerce'): the cells and the dtype.  The
\* result is float64 when a cell is null or was written with a fraction,
\* or the column was float64; otherwise int64.
to_numeric_column(cells, dtype) ==
    CHOOSE out \in
        {[cells |-> new,
          dtype |-> IF \/ dtype = "float64"
                       \/ \E i \in 1..Len(new) : new[i].k = "null"
                       \/ \E i \in 1..Len(cells) :
                              cells[i].k = "str" /\ "." \in Range(cells[i].s)
                    THEN "float64" ELSE "int64"] :
            new \in {[i \in 1..Len(cells) |-> to_numeric(cells[i])]}} : TRUE

\* astype('string') and astype('category'): a null stays null.
astype_string(cells, dtype) ==
    [i \in 1..Len(cells) |-> IF cells[i].k = "null" THEN NullCell ELSE astype_str(cells[i], dtype)]

\* One item of the loop of convert_data_types.  The target types datetime
\* and boolean are not drawn and have no case here; a target type the
\* method does not know is logged and skipped.
converted_column(df, column, target_type) ==
    CASE target_type \in {"numeric", "integer", "float"} ->
             CHOOSE out \in
                 {SetColumn(df, column,
                            CASE target_type = "numeric" -> numeric.dtype
                              [] target_type = "integer" -> "Int64"
                              [] target_type = "float" -> "float64",
                            numeric.cells) :
                     numeric \in {to_numeric_column(Column(df, column), DType(df, column))}} : TRUE
      [] target_type = "string" ->
             SetColumn(df, column, "string", astype_string(Column(df, column), DType(df, column)))
      [] target_type = "category" -> SetColumn(df, column, "category", Column(df, column))
      [] target_type \notin {"numeric", "integer", "float", "string", "category",
                             "datetime", "boolean"} -> df

\* The loop of convert_data_types; the result is <<df, records_affected>>.
RECURSIVE convert_loop(_, _, _)
convert_loop(df, type_mapping, done) ==
    IF type_mapping = <<>> THEN <<df, done>>
    ELSE LET column == Head(type_mapping)[1]
             target_type == Head(type_mapping)[2]
         IN IF column \notin Range(df.columns)
            THEN convert_loop(df, Tail(type_mapping), done)
            ELSE CHOOSE out \in
                     {convert_loop(new, Tail(type_mapping),
                                   done + IF DType(df, column) # DType(new, column)
                                          THEN NRows(df) ELSE 0) :
                         new \in {converted_column(df, column, target_type)}} : TRUE

\* DataCleaner.convert_data_types; type_mapping is the dict as the sequence
\* of its <<column, target type>> items.
convert_data_types(df, type_mapping) ==
    CHOOSE res \in
        {Done(out[1], "convert_data_types", mapping_keys(type_mapping), out[2]) :
            out \in {convert_loop(df, type_mapping, 0)}} : TRUE

\* Regular expressions, by their source text.  re.compile raises re.error
\* on an unbalanced parenthesis.  The patterns drawn are a digit class, one
\* literal character, and unbalanced ones.
DigitClass == <<"\\", "d">>
compiles(pattern) ==
    Cardinality({i \in 1..Len(pattern) : pattern[i] = "("})
        = Cardinality({i \in 1..Len(pattern) : pattern[i] = ")"})

\* re.sub(pattern, replacement, s) for the patterns that match one character.
RECURSIVE regex_sub(_, _, _)
regex_sub(pattern, replacement, s) ==
    IF s = <<>> THEN <<>>
    ELSE LET matches == IF pattern = DigitClass THEN IsDigit(Head(s)) ELSE <<Head(s)>> = pattern
         IN (IF matches THEN replacement ELSE <<Head(s)>>)
                \o regex_sub(pattern, replacement, Tail(s))

\* The number of cells whose text differs:
\* (original.astype(str) != new.astype(str)).sum()
changed_text_count(before, beforeType, after, afterType) ==
    Cardinality({i \in 1..Len(before) :
        astype_str(before[i], beforeType) # astype_str(after[i], afterType)})

\* One item of the loop of standardize_formats: the column it assigns.  A
\* rule is [type, pattern, replacement].  The rule types phone, date and
\* currency are not drawn and have no case here; any other type assigns
\* nothing, as does a regex rule without a pattern.
standardized_column(df, column, rules) ==
    LET cells == column_astype_str(Column(df, column), DType(df, column))
    IN CASE rules.type = "email" ->
              SetColumn(df, column, "object",
                        [i \in 1..Len(cells) |-> StrCell(strip(lower(cells[i].s)))])
         [] rules.type = "regex" /\ rules.pattern # <<>> ->
              SetColumn(df, column, "object",
                        [i \in 1..Len(cells) |->
                            StrCell(regex_sub(rules.pattern, rules.replacement, cells[i].s))])
         [] rules.type = "regex" /\ rules.pattern = <<>> -> df
         [] rules.type \notin {"email", "regex", "phone", "date", "currency"} -> df

\* The loop of standardize_formats; the result is <<raised, df, count>>.
RECURSIVE standardize_loop(_, _, _)
standardize_loop(df, format_rules, done) ==
    IF format_rules = <<>> THEN <<FALSE, df, done>>
    ELSE LET column == Head(format_rules)[1]
             rules == Head(format_rules)[2]
         IN IF column \notin Range(df.columns)
            THEN standardize_loop(df, Tail(format_rules), done)
            ELSE IF rules.type = "regex" /\ ~compiles(rules.pattern)
            THEN <<TRUE, df, done>>
            ELSE CHOOSE out \in
                     {standardize_loop(new, Tail(format_rules),
                          done + changed_text_count(Column(df, column), DType(df, column),
                                                    Column(new, column), DType(new, column))) :
                         new \in {standardized_column(df, column, rules)}} : TRUE

\* DataCleaner.standardize_formats; format_rules is the dict as the sequence
\* of its <<column, rules>> items.
standardize_formats(df, format_rules) ==
    LET out == standardize_loop(df, format_rules, 0)
    IN IF out[1] THEN RaisedAfter(out[2])
       ELSE Done(out[2], "standardize_formats", mapping_keys(format_rules), out[3])

\* The loop of detect_and_fix_encoding_issues; the result is <<df, count>>.
\* Every column is cast to str and stripped of what is not printable.  The
\* mis-decoded sequences of encoding_map are not ASCII and do not occur.
RECURSIVE encoding_loop(_, _, _)
encoding_loop(df, columns, done) ==
    IF columns = <<>> THEN <<df, done>>
    ELSE LET col == Head(columns)
         IN IF col \notin Range(df.columns) THEN encoding_loop(df, Tail(columns), done)
            ELSE LET cells == column_astype_str(Column(df, col), DType(df, col))
                 IN CHOOSE out \in
                        {encoding_loop(new, Tail(columns),
                             done + changed_text_count(Column(df, col), DType(df, col),
                                                       Column(new, col), "object")) :
                            new \in {SetColumn(df, col, "object",
                                        [i \in 1..Len(cells) |->
                                            StrCell(remove_non_printable(cells[i].s))])}} : TRUE

\* df.select_dtypes(include=['object', 'string']).columns.tolist()
text_columns(df) == SelectSeq(df.columns, LAMBDA c : DType(df, c) \in {"object", "string"})

\* DataCleaner.detect_and_fix_encoding_issues
detect_and_fix_encoding_issues(df, columns_arg) ==
    LET columns == IF IsNone(columns_arg) THEN text_columns(df) ELSE columns_arg[1]
        out == encoding_loop(df, columns, 0)
    IN Done(out[1], "fix_encoding_issues", columns, out[2])

\* DataCleaner.reorder_columns
reorder_columns(df, column_order) ==
    IF missing_cols(df, column_order) # <<>> THEN Raised
    ELSE LET remaining_cols == SelectSeq(df.columns, LAMBDA c : c \notin Range(column_order))
             final_order == column_order \o remaining_cols
         IN Done(TakeCols(df, final_order), "reorder_columns", column_order, 0)


\* --------------------------------------------------------------------- state
VARIABLES
    data,              \* DataCleaner.data
    original_data,     \* DataCleaner.original_data
    cleaning_history,  \* DataCleaner.cleaning_history
    clock,             \* number of CleaningOperation records created so far
    captured,          \* history: the dataset handed to DataCleaner(...)
    results,           \* history: results[t] = self.data when the record with timestamp t was appended
    last,              \* history: the latest call, its outcome, the state it started from
    prev,              \* history: the dataset the call before the latest one started from, when that call was a successful transform, and whether a successful undo led to that transform
    rt,                \* history: progress of a transforms / undos / redos round trip
    appended,          \* history: number of add_operation calls on the current ledger
    args,              \* history: the arguments of the latest call
    steps,             \* history: the steps of the latest auto_clean_dataset run
    heap,              \* the DataFrame objects, by identity, where identities are tracked
    held,              \* the identities of the objects the session returned to its caller
    stored             \* history: stored[id] = the content object id had when stored as a snapshot

vars == <<data, original_data, cleaning_history, clock, captured, results, last, prev, rt,
          appended, args, steps, heap, held, stored>>

\* ------------------------------------------------------------------- inputs
\* The datasets a session is constructed with.
Ch(c) == StrCell(<<c>>)

\* The dataset of test_cleaning_history.
InputCol1Col2 ==
    [columns |-> <<"col1", "col2">>, dtypes |-> <<"int64", "object">>,
     index |-> <<0, 1, 2, 3, 4>>,
     values |-> << <<IntCell(1), Ch("a")>>, <<IntCell(2), Ch("b")>>,
                   <<IntCell(2), Ch("b")>>, <<IntCell(3), Ch("c")>>,
                   <<IntCell(4), Ch("d")>> >>]

\* A dataset with a missing text value and a duplicated row.
InputWithNull ==
    [columns |-> <<"col1", "col2">>, dtypes |-> <<"int64", "object">>,
     index |-> <<0, 1, 2>>,
     values |-> << <<IntCell(1), NullCell>>, <<IntCell(2), Ch("b")>>,
                   <<IntCell(2), Ch("b")>> >>]

Inputs == {InputCol1Col2, InputWithNull}

\* The arguments the calls are made with: <<strategy, subset>>,
\* <<strategy, columns>> and column_order.
DedupArgs == {<<"first", None>>, <<"all", Some(<<"col1">>)>>, <<"keep_any", None>>}
MissingArgs == {<<"drop", None>>, <<"drop", Some(<<"col3">>)>>, <<"remove", Some(<<"col2">>)>>}
ColumnOrders == {<<"col2">>, <<"col3">>}

TransformNames ==
    {"remove_duplicates", "handle_missing_values", "reorder_columns", "rename_columns",
     "remove_outliers", "clean_text", "convert_data_types", "standardize_formats",
     "detect_and_fix_encoding_issues"}

\* -------------------------------------------------------- history variables
Call(name, ok) ==
    [call |-> name, ok |-> ok, data |-> data, history |-> cleaning_history, clock |-> clock]

\* Whether add_operation on ledger h evicts the oldest entry.
Evicts(h) ==
    (IF h.current_index < Len(h.operations)
     THEN Len(kept_snapshots(h)) ELSE Len(h.data_snapshots)) + 1 > h.max_snapshots

\* The round trip: n successful transforms right after construction, then n
\* successful undos, then n successful redos, nothing else in between and no
\* eviction.  tip is the dataset that was current after the n-th transform.
RtOff == [phase |-> "off", n |-> 0, u |-> 0, r |-> 0, tip |-> EmptyDataFrame]

RtNext(name, ok, newData) ==
    IF ~ok THEN RtOff
    ELSE IF name \in TransformNames
    THEN IF rt.phase = "transforms" /\ ~Evicts(cleaning_history)
         THEN [rt EXCEPT !.n = @ + 1, !.tip = newData]
         ELSE RtOff
    ELSE IF name = "undo"
    THEN IF rt.phase = "transforms" /\ rt.n >= 1
         THEN [rt EXCEPT !.phase = "undos", !.u = 1]
         ELSE IF rt.phase = "undos" /\ rt.u < rt.n
         THEN [rt EXCEPT !.u = @ + 1]
         ELSE RtOff
    ELSE IF name = "redo"
    THEN IF rt.phase = "undos" /\ rt.u = rt.n
         THEN [rt EXCEPT !.phase = "redos", !.r = 1]
         ELSE IF rt.phase = "redos" /\ rt.r < rt.n
         THEN [rt EXCEPT !.r = @ + 1]
         ELSE RtOff
    ELSE RtOff

NoTransform == [transform |-> FALSE, data |-> EmptyDataFrame, undone |-> FALSE]

LogTail(name, a, ok, newData, trace) ==
    /\ last' = Call(name, ok)
    /\ args' = a
    /\ steps' = trace
    /\ prev' = IF last.call \in TransformNames /\ last.ok
               THEN [transform |-> TRUE, data |-> last.data,
                     undone |-> ~prev.transform /\ prev.undone]
               ELSE IF name \in TransformNames /\ ok /\ last.call = "undo" /\ last.ok
               THEN [NoTransform EXCEPT !.undone = TRUE]
               ELSE NoTransform
    /\ rt' = RtNext(name, ok, newData)
    /\ UNCHANGED captured

\* The sessions that hold their datasets as values track no identities.
LogSteps(name, a, ok, newData, trace) ==
    /\ LogTail(name, a, ok, newData, trace)
    /\ UNCHANGED <<heap, held, stored>>

LogCall(name, a, ok, newData) == LogSteps(name, a, ok, newData, <<>>)

Log(name, ok, newData) == LogCall(name, <<>>, ok, newData)

\* --------------------------------------------------------------------- Init
\* DataCleaner.__init__
NewDataCleaner(input) ==
    /\ data = input
    /\ original_data = input
    /\ cleaning_history =
           add_operation(NewCleaningHistory,
                         CleaningOperation("initial_state", <<>>, FALSE, 0, 1),
                         input)
    /\ clock = 1
    /\ captured = input
    /\ results = <<input>>
    /\ last = [call |-> "__init__", ok |-> TRUE, data |-> input,
               history |-> NewCleaningHistory, clock |-> 0]
    /\ prev = NoTransform
    /\ rt = [phase |-> "transforms", n |-> 0, u |-> 0, r |-> 0, tip |-> input]
    /\ appended = 1
    /\ args = <<>>
    /\ steps = <<>>
    /\ heap = <<>>
    /\ held = {}
    /\ stored = <<>>

Init == \E input \in Inputs : NewDataCleaner(input)

\* ------------------------------------------------------------------ actions
\* The common tail of every transform, called with arguments a: on success
\* the new self.data is stored and recorded with a fresh CleaningOperation;
\* on an exception the except clause reports it and re-raises, and self.data
\* keeps whatever the body had assigned to it by then.
Transform(name, a, res) ==
    IF res.raised
    THEN /\ data' = IF res.partial THEN res.data ELSE data
         /\ UNCHANGED <<original_data, cleaning_history, clock, results, appended>>
         /\ LogCall(name, a, FALSE, data)
    ELSE /\ data' = res.data
         /\ cleaning_history' =
                add_operation(cleaning_history,
                              CleaningOperation(res.operation_type, res.target_columns,
                                                TRUE, res.records_affected, clock + 1),
                              res.data)
         /\ clock' = clock + 1
         /\ results' = Append(results, res.data)
         /\ appended' = appended + 1
         /\ UNCHANGED original_data
         /\ LogCall(name, a, TRUE, res.data)

RemoveDuplicates ==
    /\ clock < MaxOps
    /\ \E a \in DedupArgs :
           Transform("remove_duplicates", a, remove_duplicates(data, a[1], a[2]))

HandleMissingValues ==
    /\ clock < MaxOps
    /\ \E a \in MissingArgs :
           Transform("handle_missing_values", a,
                     handle_missing_values(data, a[1], a[2], None, TRUE))

ReorderColumns ==
    /\ clock < MaxOps
    /\ \E column_order \in ColumnOrders :
           Transform("reorder_columns", <<column_order>>, reorder_columns(data, column_order))

\* DataCleaner.undo_last_operation
UndoLastOperation ==
    IF ~can_undo(cleaning_history)
    THEN /\ UNCHANGED <<data, original_data, cleaning_history, clock, results, appended>>
         /\ Log("undo", FALSE, data)
    ELSE LET h == [cleaning_history EXCEPT !.current_index = @ - 1]
         IN /\ cleaning_history' = h
            /\ IF get_current_data_raises(h)
               THEN UNCHANGED data /\ Log("undo", FALSE, data)
               ELSE data' = get_current_data(h) /\ Log("undo", TRUE, get_current_data(h))
            /\ UNCHANGED <<original_data, clock, results, appended>>

\* DataCleaner.redo_last_operation
RedoLastOperation ==
    IF ~can_redo(cleaning_history)
    THEN /\ UNCHANGED <<data, original_data, cleaning_history, clock, results, appended>>
         /\ Log("redo", FALSE, data)
    ELSE LET h == [cleaning_history EXCEPT !.current_index = @ + 1]
         IN /\ cleaning_history' = h
            /\ IF get_current_data_raises(h)
               THEN UNCHANGED data /\ Log("redo", FALSE, data)
               ELSE data' = get_current_data(h) /\ Log("redo", TRUE, get_current_data(h))
            /\ UNCHANGED <<original_data, clock, results, appended>>

\* DataCleaner.reset_to_original
ResetToOriginal ==
    /\ clock < MaxOps
    /\ data' = original_data
    /\ cleaning_history' =
           add_operation(NewCleaningHistory,
                         CleaningOperation("reset_to_original", <<>>, FALSE, 0, clock + 1),
                         original_data)
    /\ clock' = clock + 1
    /\ results' = Append(results, original_data)
    /\ appended' = 1
    /\ UNCHANGED original_data
    /\ Log("reset", TRUE, original_data)

Next ==
    \/ RemoveDuplicates
    \/ HandleMissingValues
    \/ ReorderColumns
    \/ UndoLastOperation
    \/ RedoLastOperation
    \/ ResetToOriginal

Spec == Init /\ [][Next]_vars

\* ------------------------------------------------- the transform library
\* Sessions that call the whole Transform Library on datasets with text,
\* missing values, duplicates and outliers.
\* Names and ages, a duplicated row, a row of nulls, one age far from the
\* others.
InputPeople ==
    [columns |-> <<"name", "age">>, dtypes |-> <<"object", "float64">>,
     index |-> <<0, 1, 2, 3, 4>>,
     values |-> << <<StrCell(<<"A", "b">>), IntCell(2)>>, <<StrCell(<<"A", "b">>), IntCell(2)>>,
                   <<StrCell(<<"b">>), IntCell(2)>>, <<NullCell, NullCell>>,
                   <<StrCell(<<"c">>), IntCell(6)>> >>]

\* A frame the caller sorted by age before handing it over: the row labels
\* are not in order.
InputSorted ==
    [columns |-> <<"name", "age">>, dtypes |-> <<"object", "int64">>,
     index |-> <<3, 0, 1, 2>>,
     values |-> << <<StrCell(<<"d">>), IntCell(9)>>, <<StrCell(<<"a">>), IntCell(1)>>,
                   <<StrCell(<<"b">>), IntCell(1)>>, <<StrCell(<<"c">>), IntCell(2)>> >>]

EmailRule == [type |-> "email", pattern |-> <<>>, replacement |-> <<>>]
RegexRule(pattern, replacement) == [type |-> "regex", pattern |-> pattern, replacement |-> replacement]

\* Whether the mean and the median of the numeric columns among cols are
\* whole numbers.
whole_stats(df, columns) ==
    \A j \in 1..Len(columns) :
        LET xs == numbers(Column(df, columns[j]))
            n == Len(xs)
        IN (DType(df, columns[j]) \in {"int64", "float64"} /\ n > 0) =>
               /\ sum(xs) % n = 0
               /\ n % 2 = 0 => (kth_smallest(xs, n \div 2) + kth_smallest(xs, n \div 2 + 1)) % 2 = 0

LibraryInit == \E input \in {InputPeople, InputSorted} : NewDataCleaner(input)

LibraryRemoveDuplicates ==
    /\ clock < MaxLibraryOps
    /\ \E a \in
           {<<"first", None>>, <<"first", Some(<<"age">>)>>, <<"last", Some(<<"name">>)>>,
            <<"all", None>>, <<"newest", None>>} :
           Transform("remove_duplicates", a, remove_duplicates(data, a[1], a[2]))

\* The fills by a mean or a median are called on the datasets that keep
\* them whole.
LibraryHandleMissingValues ==
    /\ clock < MaxLibraryOps
    /\ \E a \in
           {<<"drop", Some(<<"name">>), None>>, <<"fill_mean", None, None>>,
            <<"fill_median", Some(<<"age">>), None>>, <<"fill_mode", None, None>>,
            <<"fill_custom", Some(<<"name", "age">>), Some(IntCell(0))>>,
            <<"fill_custom", Some(<<"name">>), None>>, <<"fill_zero", None, None>>,
            <<"fill_mode", Some(<<"email">>), None>>}, inplace \in BOOLEAN :
           /\ a[1] \in {"fill_mean", "fill_median"} =>
                  whole_stats(data, IF IsNone(a[2]) THEN data.columns ELSE a[2][1])
           /\ Transform("handle_missing_values", a \o <<inplace>>,
                        handle_missing_values(data, a[1], a[2], a[3], inplace))

LibraryRemoveOutliers ==
    /\ clock < MaxLibraryOps
    /\ \E a \in
           {<<<<"age">>, "iqr", 3>>, <<<<"name", "age">>, "zscore", 2>>,
            <<<<"name">>, "iqr", 3>>, <<<<"age">>, "mad", 3>>,
            <<<<"age", "email">>, "iqr", 4>>} :
           Transform("remove_outliers", a, remove_outliers(data, a[1], a[2], a[3]))

LibraryRenameColumns ==
    /\ clock < MaxLibraryOps
    /\ \E column_mapping \in
           {<<<<"name", "label">>>>, <<<<"name", "age">>>>, <<<<"name", "x">>, <<"age", "x">>>>,
            <<<<"email", "mail">>>>} :
           Transform("rename_columns", <<column_mapping>>, rename_columns(data, column_mapping))

LibraryReorderColumns ==
    /\ clock < MaxLibraryOps
    /\ \E column_order \in
           {<<"age">>, <<"age", "age">>, <<"email">>} :
           Transform("reorder_columns", <<column_order>>, reorder_columns(data, column_order))

LibraryCleanText ==
    /\ clock < MaxLibraryOps
    /\ \E a \in
           {<<<<"name">>, <<"lowercase">>>>, <<<<"name", "age">>, <<"remove_numbers">>>>,
            <<<<"name">>, <<"capitalize">>>>, <<<<"email">>, <<"lowercase">>>>} :
           Transform("clean_text", a, clean_text(data, a[1], a[2]))

LibraryConvertDataTypes ==
    /\ clock < MaxLibraryOps
    /\ \E type_mapping \in
           {<<<<"age", "integer">>>>, <<<<"name", "numeric">>>>, <<<<"age", "string">>>>,
            <<<<"email", "integer">>>>, <<<<"age", "text">>>>} :
           Transform("convert_data_types", <<type_mapping>>, convert_data_types(data, type_mapping))

LibraryStandardizeFormats ==
    /\ clock < MaxLibraryOps
    /\ \E format_rules \in
           {<<<<"name", EmailRule>>>>,
            <<<<"name", EmailRule>>, <<"age", RegexRule(<<"(">>, <<>>)>>>>,
            <<<<"age", RegexRule(DigitClass, <<"0">>)>>>>,
            <<<<"email", EmailRule>>>>,
            <<<<"name", [type |-> "url", pattern |-> <<>>, replacement |-> <<>>]>>>>} :
           Transform("standardize_formats", <<format_rules>>, standardize_formats(data, format_rules))

LibraryFixEncoding ==
    /\ clock < MaxLibraryOps
    /\ \E columns \in
           {None, Some(<<"name", "email">>)} :
           Transform("detect_and_fix_encoding_issues", <<columns>>,
                     detect_and_fix_encoding_issues(data, columns))

LibraryNext ==
    \/ LibraryRemoveDuplicates
    \/ LibraryHandleMissingValues
    \/ LibraryRemoveOutliers
    \/ LibraryRenameColumns
    \/ LibraryReorderColumns
    \/ LibraryCleanText
    \/ LibraryConvertDataTypes
    \/ LibraryStandardizeFormats
    \/ LibraryFixEncoding

LibrarySpec == LibraryInit /\ [][LibraryNext]_vars

\* The sessions that only call the transforms that remove rows or fill
\* cells.
RowsNext ==
    \/ LibraryRemoveDuplicates
    \/ LibraryHandleMissingValues
    \/ LibraryRemoveOutliers

RowsSpec == LibraryInit /\ [][RowsNext]_vars

\* ------------------------------------------------------- clean_text alone
\* Sessions that call clean_text once, on a new DataCleaner, with every
\* list of at most MaxTextOps operations, in every order.  The text has
\* blanks at the ends, runs of blanks, tabs, and a tag, a digit and a
\* special character with blanks around them.
MaxTextOps == 2

InputText ==
    [columns |-> <<"text", "id">>, dtypes |-> <<"object", "int64">>,
     index |-> <<0, 1, 2, 3>>,
     values |-> << <<StrCell(<<" ", "A", " ", " ", "b", " ">>), IntCell(1)>>,
                   <<StrCell(<<"a", " ", "<", "b", ">", " ", "1", " ", "!", " ", "c">>), IntCell(2)>>,
                   <<StrCell(<<"a", "\t", "1", "\n", "b">>), IntCell(3)>>,
                   <<NullCell, IntCell(4)>> >>]

TextCleanText ==
    /\ last.call = "__init__"
    /\ \E columns \in {<<"text">>, <<"id">>, <<"text", "id">>},
          operations \in UNION {[1..n -> {"remove_special_chars", "remove_numbers",
                                          "remove_html_tags", "remove_extra_spaces",
                                          "lowercase", "normalize_whitespace"}] :
                                    n \in 1..MaxTextOps} :
           Transform("clean_text", <<columns, operations>>, clean_text(data, columns, operations))

TextSpec == NewDataCleaner(InputText) /\ [][TextCleanText]_vars

\* ------------------------------------------------------- auto_clean_dataset
\* The session while auto_clean_dataset runs: the fields of the DataCleaner,
\* whether a step raised, and the trace of the steps done so far.  A step of
\* the trace is [name, appended, changed]: whether it appended a record to
\* the ledger and whether it changed self.data.
Session ==
    [data |-> data, cleaning_history |-> cleaning_history, clock |-> clock,
     results |-> results, appended |-> appended, failed |-> FALSE, steps |-> <<>>]

\* A call of a transform from within the run: the tail of the transform, as
\* in Transform.  An exception ends the run.  parameters is what of the
\* call's arguments the trace keeps (the strategy of a fill).
Invoked(S, name, parameters, res) ==
    IF S.failed THEN S
    ELSE IF res.raised
    THEN [S EXCEPT !.data = IF res.partial THEN res.data ELSE @,
                   !.failed = TRUE,
                   !.steps = Append(@, [name |-> name, parameters |-> parameters,
                                        appended |-> FALSE,
                                        changed |-> res.partial /\ res.data # S.data])]
    ELSE [S EXCEPT !.data = res.data,
                   !.cleaning_history =
                       add_operation(@, CleaningOperation(res.operation_type, res.target_columns,
                                                          TRUE, res.records_affected, S.clock + 1),
                                     res.data),
                   !.clock = @ + 1,
                   !.results = Append(@, res.data),
                   !.appended = @ + 1,
                   !.steps = Append(@, [name |-> name, parameters |-> parameters,
                                        appended |-> TRUE,
                                        changed |-> res.data # S.data])]

\* An assignment self.data = df made by auto_clean_dataset itself.
Assigned(S, name, df) ==
    IF S.failed \/ df = S.data THEN S
    ELSE [S EXCEPT !.data = df,
                   !.steps = Append(@, [name |-> name, parameters |-> <<>>,
                                        appended |-> FALSE, changed |-> TRUE])]

\* self.data.columns[self.data.isnull().all()].tolist()
empty_cols(df) ==
    SelectSeq(df.columns, LAMBDA c : \A i \in 1..NRows(df) : Column(df, c)[i].k = "null")

\* self.data.dropna(how='all')
dropna_all(df) ==
    TakeRows(df, Positions(NRows(df),
        {i \in 1..NRows(df) : \E j \in 1..Len(df.columns) : df.values[i][j].k # "null"}))

\* The columns step 5 drops: missing_pct > threshold, the threshold given
\* in tenths (8 for 0.8, 5 for 0.5).  With no rows missing_pct is NaN.
mostly_missing_cols(df, tenths) ==
    SelectSeq(df.columns, LAMBDA c :
        NRows(df) > 0 /\ 10 * NullCount(df, <<c>>) > tenths * NRows(df))

\* select_dtypes(include=[np.number]) and the columns of it with a null.
numeric_columns(df) ==
    SelectSeq(df.columns, LAMBDA c : DType(df, c) \in {"int64", "float64", "Int64"})
with_nulls(df, columns) == SelectSeq(columns, LAMBDA c : NullCount(df, <<c>>) > 0)

\* Step 7: the object columns of which more than 80% read as numbers; the
\* numbers of the model are whole, so the target type is integer.
inferred_type_mapping(df) ==
    LET numeric_count(c) ==
            Cardinality({i \in 1..NRows(df) : to_numeric(Column(df, c)[i]).k = "int"})
        cols == SelectSeq(df.columns, LAMBDA c :
                    DType(df, c) = "object" /\ 10 * numeric_count(c) > 8 * NRows(df))
    IN [j \in 1..Len(cols) |-> <<cols[j], "integer">>]

\* auto_clean_dataset with the text cleaned before the duplicates are
\* removed (steps 3 and 4 in the other order).
auto_clean_dataset_text_first(S0, aggressive, inplace) ==
    LET text_operations == <<"remove_extra_spaces", "normalize_whitespace">>
                               \o (IF aggressive THEN <<"remove_special_chars", "lowercase">>
                                   ELSE <<>>)
        after_1 == {Invoked(S, "detect_and_fix_encoding_issues", <<>>,
                            detect_and_fix_encoding_issues(S.data, None)) : S \in {S0}}
        after_2a == {IF empty_cols(S.data) # <<>>
                     THEN Assigned(S, "drop_empty_columns", DropCols(S.data, empty_cols(S.data)))
                     ELSE S : S \in after_1}
        after_2 == {Assigned(S, "drop_empty_rows", dropna_all(S.data)) : S \in after_2a}
        after_3 == {IF text_columns(S.data) # <<>>
                    THEN Invoked(S, "clean_text", <<>>,
                                 clean_text(S.data, text_columns(S.data), text_operations))
                    ELSE S : S \in after_2}
        after_4 == {IF NRows(drop_duplicates(S.data, None, "first")) < NRows(S.data)
                    THEN Invoked(S, "remove_duplicates", <<>>, remove_duplicates(S.data, "first", None))
                    ELSE S : S \in after_3}
        after_5a == {Assigned(S, "drop_mostly_missing_columns",
                              DropCols(S.data, mostly_missing_cols(S.data,
                                                                   IF aggressive THEN 5 ELSE 8)))
                        : S \in after_4}
        after_5b == {LET missing_numeric == with_nulls(S.data, numeric_columns(S.data))
                     IN IF missing_numeric # <<>>
                        THEN Invoked(S, "handle_missing_values", <<"fill_median">>,
                                     handle_missing_values(S.data, "fill_median",
                                                           Some(missing_numeric), None, inplace))
                        ELSE S : S \in after_5a}
        after_5 == {LET missing_text == with_nulls(S.data, text_columns(S.data))
                    IN IF missing_text # <<>>
                       THEN Invoked(S, "handle_missing_values", <<"fill_mode">>,
                                    handle_missing_values(S.data, "fill_mode",
                                                          Some(missing_text), None, inplace))
                       ELSE S : S \in after_5b}
        after_6 == {IF aggressive /\ numeric_columns(S.data) # <<>>
                    THEN Invoked(S, "remove_outliers", <<>>,
                                 remove_outliers(S.data, numeric_columns(S.data), "iqr", 4))
                    ELSE S : S \in after_5}
        after_7 == {IF inferred_type_mapping(S.data) # <<>>
                    THEN Invoked(S, "convert_data_types", <<>>,
                                 convert_data_types(S.data, inferred_type_mapping(S.data)))
                    ELSE S : S \in after_6}
        closed == {Invoked(S, "auto_clean_dataset", <<>>,
                           Done(S.data, "auto_clean_dataset", S.data.columns,
                                NRows(S0.data) - NRows(S.data))) : S \in after_7}
    IN CHOOSE S \in closed : TRUE

\* DataCleaner.auto_clean_dataset, steps 1 to 7 and the closing record.
\* after_k is the session after step k, as a set of one element.
auto_clean_dataset(S0, aggressive, inplace) ==
    LET text_operations == <<"remove_extra_spaces", "normalize_whitespace">>
                               \o (IF aggressive THEN <<"remove_special_chars", "lowercase">>
                                   ELSE <<>>)
        after_1 == {Invoked(S, "detect_and_fix_encoding_issues", <<>>,
                            detect_and_fix_encoding_issues(S.data, None)) : S \in {S0}}
        after_2a == {IF empty_cols(S.data) # <<>>
                     THEN Assigned(S, "drop_empty_columns", DropCols(S.data, empty_cols(S.data)))
                     ELSE S : S \in after_1}
        after_2 == {Assigned(S, "drop_empty_rows", dropna_all(S.data)) : S \in after_2a}
        after_3 == {IF NRows(drop_duplicates(S.data, None, "first")) < NRows(S.data)
                    THEN Invoked(S, "remove_duplicates", <<>>, remove_duplicates(S.data, "first", None))
                    ELSE S : S \in after_2}
        after_4 == {IF text_columns(S.data) # <<>>
                    THEN Invoked(S, "clean_text", <<>>,
                                 clean_text(S.data, text_columns(S.data), text_operations))
                    ELSE S : S \in after_3}
        after_5a == {Assigned(S, "drop_mostly_missing_columns",
                              DropCols(S.data, mostly_missing_cols(S.data,
                                                                   IF aggressive THEN 5 ELSE 8)))
                        : S \in after_4}
        after_5b == {LET missing_numeric == with_nulls(S.data, numeric_columns(S.data))
                     IN IF missing_numeric # <<>>
                        THEN Invoked(S, "handle_missing_values", <<"fill_median">>,
                                     handle_missing_values(S.data, "fill_median",
                                                           Some(missing_numeric), None, inplace))
                        ELSE S : S \in after_5a}
        after_5 == {LET missing_text == with_nulls(S.data, text_columns(S.data))
                    IN IF missing_text # <<>>
                       THEN Invoked(S, "handle_missing_values", <<"fill_mode">>,
                                    handle_missing_values(S.data, "fill_mode",
                                                          Some(missing_text), None, inplace))
                       ELSE S : S \in after_5b}
        after_6 == {IF aggressive /\ numeric_columns(S.data) # <<>>
                    THEN Invoked(S, "remove_outliers", <<>>,
                                 remove_outliers(S.data, numeric_columns(S.data), "iqr", 4))
                    ELSE S : S \in after_5}
        after_7 == {IF inferred_type_mapping(S.data) # <<>>
                    THEN Invoked(S, "convert_data_types", <<>>,
                                 convert_data_types(S.data, inferred_type_mapping(S.data)))
                    ELSE S : S \in after_6}
        closed == {Invoked(S, "auto_clean_dataset", <<>>,
                           Done(S.data, "auto_clean_dataset", S.data.columns,
                                NRows(S0.data) - NRows(S.data))) : S \in after_7}
    IN CHOOSE S \in closed : TRUE

\* Datasets for the runs of auto_clean_dataset.
\* Numbers only: a column without values, a row without values, a
\* duplicated row.
InputNumbers ==
    [columns |-> <<"x", "y", "z">>, dtypes |-> <<"float64", "float64", "float64">>,
     index |-> <<0, 1, 2, 3>>,
     values |-> << <<IntCell(1), NullCell, IntCell(3)>>, <<NullCell, NullCell, NullCell>>,
                   <<IntCell(1), NullCell, IntCell(3)>>, <<IntCell(5), NullCell, NullCell>> >>]

\* Text to tidy, a number written as text, an age that is missing.
InputScraped ==
    [columns |-> <<"name", "views", "age">>, dtypes |-> <<"object", "object", "float64">>,
     index |-> <<0, 1, 2>>,
     values |-> << <<StrCell(<<" ", "A", "!">>), StrCell(<<"1", "0">>), IntCell(4)>>,
                   <<StrCell(<<"b", "\t", "c">>), StrCell(<<"2">>), NullCell>>,
                   <<NullCell, StrCell(<<"7">>), IntCell(4)>> >>]

\* Counts written as text with one entry that is no number, and two
\* names that differ in their blanks only.  No row repeats another and no
\* cell is missing.
InputViews ==
    [columns |-> <<"name", "views">>, dtypes |-> <<"object", "object">>,
     index |-> <<0, 1, 2, 3, 4, 5>>,
     values |-> << <<StrCell(<<"a", " ", "b">>), StrCell(<<"1">>)>>,
                   <<StrCell(<<"a", " ", " ", "b">>), StrCell(<<"1">>)>>,
                   <<StrCell(<<"c">>), StrCell(<<"2">>)>>,
                   <<StrCell(<<"d">>), StrCell(<<"3">>)>>,
                   <<StrCell(<<"e">>), StrCell(<<"4">>)>>,
                   <<StrCell(<<"b">>), StrCell(<<"b">>)>> >>]

AutoInit ==
    \E input \in {InputNumbers, InputScraped, InputPeople, InputViews} : NewDataCleaner(input)

\* DataCleaner.auto_clean_dataset: an exception of a step is caught,
\* reported and returned as {"error": ...}.
AutoCleanDataset ==
    /\ clock < MaxLibraryOps
    /\ \E aggressive \in BOOLEAN, inplace \in BOOLEAN :
         \E S \in {auto_clean_dataset(Session, aggressive, inplace)} :
              /\ data' = S.data
              /\ cleaning_history' = S.cleaning_history
              /\ clock' = S.clock
              /\ results' = S.results
              /\ appended' = S.appended
              /\ UNCHANGED original_data
              /\ LogSteps("auto_clean_dataset", <<aggressive, inplace>>, ~S.failed, S.data, S.steps)

\* DataCleaner.validate_data_quality: the report.  The percentages are
\* fractions of total_cells, so overall_score is given times total_cells,
\* in exact arithmetic.  self.data[col] is a DataFrame when two columns
\* share the name col, and its .dtype raises AttributeError; the except
\* clause returns {"error": ...}.  The outlier counts are taken with the
\* bounds Q1 - 1.5 * IQR and Q3 + 1.5 * IQR.
validate_data_quality(df) ==
    LET total_cells == NRows(df) * Len(df.columns)
        as_str(c) == column_astype_str(Column(df, c), DType(df, c))
        spaced(c) == \E i \in 1..NRows(df) : \E m \in 2..Len(as_str(c)[i].s) :
                        IsSpace(as_str(c)[i].s[m - 1]) /\ IsSpace(as_str(c)[i].s[m])
        special(c) == 10 * Cardinality({i \in 1..NRows(df) :
                              remove_special_chars(as_str(c)[i].s) # as_str(c)[i].s})
                          > 3 * NRows(df)
        said(flag, text) == IF flag THEN <<text>> ELSE <<>>
        band(score) == IF score < 60 * total_cells THEN "poor"
                       ELSE IF score < 80 * total_cells THEN "moderate" ELSE "good"
    IN IF total_cells = 0
       THEN [error |-> FALSE, overall_score |-> 0, recommendations |-> <<>>]
       ELSE IF \E i, j \in 1..Len(df.columns) : i # j /\ df.columns[i] = df.columns[j]
       THEN [error |-> TRUE, overall_score |-> 0, recommendations |-> <<>>]
       ELSE CHOOSE report \in
                {[error |-> FALSE,
                  overall_score |-> IF count[6] > 0 THEN count[6] ELSE 0,
                  recommendations |->
                      <<band(IF count[6] > 0 THEN count[6] ELSE 0)>>
                      \o said(100 * count[1] > 20 * total_cells, "impute")
                      \o said(100 * count[2] > 5 * NRows(df), "remove duplicates")
                      \o said(count[3] > 0, "convert")
                      \o said(count[4] > 0, "review outliers")
                      \o said(count[5] > 0, "clean text")] :
                    count \in
                        {<<missing, duplicate, types, outlier, text,
                           100 * total_cells
                               - Min(100 * missing, 30 * total_cells)
                               - Min(100 * duplicate * Len(df.columns), 20 * total_cells)
                               - types * 5 * total_cells
                               - outlier * 3 * total_cells
                               - text * 2 * total_cells>> :
                            missing \in {NullCount(df, df.columns)},
                            duplicate \in {NRows(df) - NRows(drop_duplicates(df, None, "first"))},
                            types \in {Len(inferred_type_mapping(df))},
                            outlier \in {Len(SelectSeq(numeric_columns(df), LAMBDA c :
                                20 * Cardinality(col_outliers(df, c, "iqr", 3)) > NRows(df)))},
                            text \in {Len(SelectSeq(text_columns(df), spaced))
                                         + Len(SelectSeq(text_columns(df), special))}}} : TRUE

\* DataCleaner.validate_data_quality and DataCleaner.get_data_summary read
\* self.data and build a report.
ValidateDataQuality ==
    /\ UNCHANGED <<data, original_data, cleaning_history, clock, results, appended>>
    /\ Log("validate_data_quality", ~validate_data_quality(data).error, data)

GetDataSummary ==
    /\ UNCHANGED <<data, original_data, cleaning_history, clock, results, appended>>
    /\ Log("get_data_summary", TRUE, data)

AutoNext ==
    \/ AutoCleanDataset
    \/ LibraryRemoveDuplicates
    \/ UndoLastOperation
    \/ RedoLastOperation
    \/ ValidateDataQuality
    \/ GetDataSummary

AutoSpec == AutoInit /\ [][AutoNext]_vars

\* The sessions that rename columns, remove duplicates and ask for the
\* quality report.
QualityNext ==
    \/ LibraryRenameColumns
    \/ LibraryRemoveDuplicates
    \/ ValidateDataQuality

QualitySpec == AutoInit /\ [][QualityNext]_vars

\* -------------------------------------------------------- object identities
\* Sessions in which every DataFrame is an object with an identity: heap[id]
\* is the content of object id, and self.data, self.original_data and the
\* entries of data_snapshots hold identities.  An assignment to self.data
\* binds the name to another object; an assignment to a column of self.data
\* changes the object every holder of its identity sees.
MaxObjects == 9

\* The caller's own dataset is the first object.
InputObject == 1

\* A DataFrame built by an expression: a new object.
new_object(objs, df) == [heap |-> Append(objs, df), id |-> Len(objs) + 1]

\* DataFrame.copy(): a new object with the content of object id.
copy(objs, id) == new_object(objs, objs[id])

\* The snapshot list keeping the object it was handed, not a copy.
snapshot_shared(objs, id) == [heap |-> objs, id |-> id]

\* data_snapshot.copy() in CleaningHistory.add_operation
snapshot_copy(objs, id) == copy(objs, id)

\* reset_to_original handing out self.original_data itself.
original_shared(objs, id) == [heap |-> objs, id |-> id]

\* self.original_data.copy() in reset_to_original
original_copy(objs, id) == copy(objs, id)

\* stored, after object id was stored as a snapshot with content df, with n
\* objects on the heap.
Remember(n, id, df) ==
    [i \in 1..n |-> IF i = id THEN Some(df)
                    ELSE IF i <= Len(stored) THEN stored[i] ELSE None]

\* What a caller does to a DataFrame it holds: df[df.columns[0]] = None.
caller_edit(df) ==
    IF Len(df.columns) = 0 THEN df
    ELSE SetColumn(df, df.columns[1], "object", [i \in 1..NRows(df) |-> NullCell])

ObjectInit ==
    \E input \in {InputPeople} :
        LET caller == new_object(<<>>, input)
            own == copy(caller.heap, caller.id)
            original == copy(own.heap, caller.id)
            snapshot == snapshot_copy(original.heap, original.id)
        IN /\ heap = snapshot.heap
           /\ data = own.id
           /\ original_data = original.id
           /\ cleaning_history =
                  add_operation(NewCleaningHistory,
                                CleaningOperation("initial_state", <<>>, FALSE, 0, 1),
                                snapshot.id)
           /\ stored = [i \in 1..Len(snapshot.heap) |->
                            IF i = snapshot.id THEN Some(input) ELSE None]
           /\ held = {}
           /\ clock = 1
           /\ captured = input
           /\ results = <<input>>
           /\ last = [call |-> "__init__", ok |-> TRUE, data |-> own.id,
                      history |-> NewCleaningHistory, clock |-> 0]
           /\ prev = NoTransform
           /\ rt = RtOff
           /\ appended = 1
           /\ args = <<>>
           /\ steps = <<>>

\* The tail of a transform whose body left outcome res: in_place tells
\* whether the body assigned to columns of self.data or bound self.data to
\* the new DataFrame it built.
ObjectTransform(name, a, res, in_place) ==
    IF res.raised
    THEN /\ heap' = IF res.partial THEN [heap EXCEPT ![data] = res.data] ELSE heap
         /\ UNCHANGED <<data, original_data, cleaning_history, clock, results, appended,
                        held, stored>>
         /\ LogTail(name, a, FALSE, data, <<>>)
    ELSE LET own == IF in_place
                    THEN [heap |-> [heap EXCEPT ![data] = res.data], id |-> data]
                    ELSE new_object(heap, res.data)
             snapshot == snapshot_copy(own.heap, own.id)
         IN /\ heap' = snapshot.heap
            /\ data' = own.id
            /\ cleaning_history' =
                   add_operation(cleaning_history,
                                 CleaningOperation(res.operation_type, res.target_columns,
                                                   TRUE, res.records_affected, clock + 1),
                                 snapshot.id)
            /\ stored' = Remember(Len(snapshot.heap), snapshot.id, res.data)
            /\ held' = held \cup {own.id}
            /\ clock' = clock + 1
            /\ results' = Append(results, res.data)
            /\ appended' = appended + 1
            /\ UNCHANGED original_data
            /\ LogTail(name, a, TRUE, own.id, <<>>)

ObjectRemoveDuplicates ==
    /\ Len(heap) + 2 <= MaxObjects
    /\ ObjectTransform("remove_duplicates", <<"first", None>>,
                       remove_duplicates(heap[data], "first", None), FALSE)

ObjectHandleMissingValues ==
    /\ Len(heap) + 2 <= MaxObjects
    /\ \E a \in {<<"drop", Some(<<"age">>), None>>,
                 <<"fill_custom", Some(<<"name", "age">>), Some(IntCell(0))>>},
          inplace \in BOOLEAN :
           ObjectTransform("handle_missing_values", a \o <<inplace>>,
                           handle_missing_values(heap[data], a[1], a[2], a[3], inplace),
                           a[1] # "drop")

ObjectCleanText ==
    /\ Len(heap) + 2 <= MaxObjects
    /\ \E a \in {<<<<"name">>, <<"lowercase">>>>} :
           ObjectTransform("clean_text", a, clean_text(heap[data], a[1], a[2]), TRUE)

\* undo_last_operation and redo_last_operation, which move the cursor by
\* step and bind self.data to what get_current_data returns: a copy of the
\* snapshot under the cursor, or a new empty DataFrame.
ObjectMoveCursor(name, able, step) ==
    IF ~able
    THEN /\ UNCHANGED <<data, original_data, cleaning_history, clock, results, appended,
                        heap, held, stored>>
         /\ LogTail(name, <<>>, FALSE, data, <<>>)
    ELSE LET h == [cleaning_history EXCEPT !.current_index = @ + step]
             returned == IF h.current_index < Len(h.data_snapshots)
                         THEN copy(heap, get_current_data(h))
                         ELSE new_object(heap, EmptyDataFrame)
         IN /\ cleaning_history' = h
            /\ IF get_current_data_raises(h)
               THEN /\ UNCHANGED <<data, heap, held, stored>>
                    /\ LogTail(name, <<>>, FALSE, data, <<>>)
               ELSE /\ heap' = returned.heap
                    /\ data' = returned.id
                    /\ held' = held \cup {returned.id}
                    /\ stored' = Append(stored, None)
                    /\ LogTail(name, <<>>, TRUE, returned.id, <<>>)
            /\ UNCHANGED <<original_data, clock, results, appended>>

ObjectUndo ==
    /\ Len(heap) + 1 <= MaxObjects
    /\ ObjectMoveCursor("undo", can_undo(cleaning_history), -1)

ObjectRedo ==
    /\ Len(heap) + 1 <= MaxObjects
    /\ ObjectMoveCursor("redo", can_redo(cleaning_history), 1)

\* DataCleaner.reset_to_original
ObjectReset ==
    /\ Len(heap) + 2 <= MaxObjects
    /\ LET own == original_copy(heap, original_data)
           snapshot == snapshot_copy(own.heap, original_data)
       IN /\ heap' = snapshot.heap
          /\ data' = own.id
          /\ cleaning_history' =
                 add_operation(NewCleaningHistory,
                               CleaningOperation("reset_to_original", <<>>, FALSE, 0, clock + 1),
                               snapshot.id)
          /\ stored' = Remember(Len(snapshot.heap), snapshot.id, heap[original_data])
          /\ held' = held \cup {own.id}
          /\ clock' = clock + 1
          /\ results' = Append(results, heap[original_data])
          /\ appended' = 1
          /\ UNCHANGED original_data
          /\ LogTail("reset", <<>>, TRUE, own.id, <<>>)

\* The caller edits a dataset the session returned to it.
CallerEdits ==
    \E id \in held :
        /\ caller_edit(heap[id]) # heap[id]
        /\ heap' = [heap EXCEPT ![id] = caller_edit(heap[id])]
        /\ UNCHANGED <<data, original_data, cleaning_history, clock, results, appended,
                       held, stored>>
        /\ LogTail("caller_edit", <<id>>, TRUE, data, <<>>)

ObjectNext ==
    \/ ObjectRemoveDuplicates
    \/ ObjectHandleMissingValues
    \/ ObjectCleanText
    \/ ObjectUndo
    \/ ObjectRedo
    \/ ObjectReset
    \/ CallerEdits

ObjectSpec == ObjectInit /\ [][ObjectNext]_vars



\* ------------------------------------------------------------------- claims
\* Shorthands for the state the latest call left behind.
Undone == last.call = "undo" /\ last.ok
Redone == last.call = "redo" /\ last.ok
Transformed == last.call \in TransformNames /\ last.ok

\* C1: after N >= 1 successful transforms from construction with no
\* eviction, N undos followed by N redos leave the session's current dataset
\* equal to the dataset that was current right after the N-th transform.
C1_UndoRedoRoundTrip ==
    (rt.phase = "redos" /\ rt.r = rt.n) => data = rt.tip

\* C2: when undo succeeds directly after a successful transform T, the
\* cursor has decreased by exactly one and the current dataset is the
\* dataset that was current immediately before T was applied.
C2_UndoRestoresPrevious ==
    (Undone /\ prev.transform) =>
        /\ cleaning_history.current_index = last.history.current_index - 1
        /\ data = prev.data

\* C3: when redo succeeds, the cursor has increased by exactly one and the
\* current dataset is snapshots[cursor - 1] for the new cursor (the list
\* element before the cursor, data_snapshots[cursor] in 1-based indexing);
\* redoing up to the newest operation yields that operation's recorded
\* result.
C3_RedoReappliesNext ==
    Redone =>
        LET h == cleaning_history
            c == h.current_index
        IN /\ c = last.history.current_index + 1
           /\ c \in 1..Len(h.data_snapshots)
           /\ data = h.data_snapshots[c]
           /\ c = Len(h.operations) => data = results[h.operations[c].timestamp]

\* C4: after reset_to_original, the session's data and the ledger's
\* get_current_data both equal the dataset captured at construction.
C4_ResetReturnsToOriginal ==
    last.call = "reset" =>
        /\ data = captured
        /\ get_current_data(cleaning_history) = captured

\* C5: in every reachable state len(data_snapshots) == len(operations).
C5_LedgerLengths ==
    Len(cleaning_history.data_snapshots) = Len(cleaning_history.operations)

\* C6: in every reachable state, for every index i of operations,
\* data_snapshots[i] is the dataset that resulted from applying
\* operations[i].
C6_SnapshotPairing ==
    \A i \in 1..Len(cleaning_history.operations) :
        /\ i <= Len(cleaning_history.data_snapshots)
        /\ cleaning_history.data_snapshots[i] =
               results[cleaning_history.operations[i].timestamp]


\* C7: in every reachable state 0 <= current_index <= len(operations).
C7_CursorBounds ==
    /\ 0 <= cleaning_history.current_index
    /\ cleaning_history.current_index <= Len(cleaning_history.operations)

\* C7 witness: a ledger whose oldest entry was evicted, undone down to
\* cursor 0.
C7_Witness ==
    /\ Undone
    /\ cleaning_history.current_index = 0
    /\ Len(cleaning_history.operations) >= 1
    /\ cleaning_history.operations[1].timestamp > 1
    /\ appended > max_snapshots

\* C8: once more than max_snapshots operations have been appended to a
\* ledger, len(operations) == max_snapshots after every further append, also
\* when undos precede the append; an eviction removes exactly the oldest
\* operation and snapshot, and happens only when len(operations) exceeds
\* max_snapshots.
C8_HistoryBound ==
    Transformed =>
        LET h == cleaning_history
            before == last.history
            cut == before.current_index < Len(before.operations)
            opsBefore == IF cut THEN SubSeq(before.operations, 1, before.current_index)
                         ELSE before.operations
        IN /\ appended > max_snapshots => Len(h.operations) = max_snapshots
           /\ Evicts(before) =>
                 /\ Len(opsBefore) + 1 > max_snapshots
                 /\ Len(h.operations) = Len(opsBefore)
                 /\ \A i \in 1..(Len(opsBefore) - 1) : h.operations[i] = opsBefore[i + 1]

\* C9: when add_operation runs with cursor c < len(operations), operations
\* and snapshots are both truncated to length c before the new pair is
\* appended; afterwards cursor == len(operations), redo is unavailable and
\* nothing of the discarded branch remains.
C9_AppendDiscardsRedoBranch ==
    (Transformed /\ last.history.current_index < Len(last.history.operations)) =>
        LET h == cleaning_history
            c == last.history.current_index
        IN /\ Len(h.operations) = c + 1
           /\ SubSeq(h.operations, 1, c) = SubSeq(last.history.operations, 1, c)
           /\ h.data_snapshots = Append(SubSeq(last.history.data_snapshots, 1, c), data)
           /\ h.current_index = Len(h.operations)
           /\ ~can_redo(h)

\* C10: undo called with cursor == 0 and redo called with cursor ==
\* len(operations) fail, and the failed call leaves the cursor, the
\* operations, the snapshots and the current dataset unchanged.
C10_InvalidStateNoMutation ==
    /\ (last.call = "undo" /\ last.history.current_index = 0) => ~last.ok
    /\ (last.call = "redo" /\ last.history.current_index = Len(last.history.operations))
           => ~last.ok
    /\ (last.call \in {"undo", "redo"} /\ ~last.ok) =>
           /\ cleaning_history = last.history
           /\ data = last.data

\* C10 witness: a refused undo at cursor 0 of a ledger that holds operations.
C10_Witness ==
    /\ last.call = "undo"
    /\ ~last.ok
    /\ last.history.current_index = 0
    /\ Len(cleaning_history.operations) >= 2
    /\ data # EmptyDataFrame

\* The record the latest successful transform appended.
NewestOperation == cleaning_history.operations[Len(cleaning_history.operations)]

Called(name) == last.call = name /\ last.ok

\* C11: when a Transform Library call raises, the current dataset and the
\* ledger (operations, snapshots, cursor) are exactly as they were before
\* the call, also when the failure occurs at the second or a later column.
C11_FailureAtomicity ==
    (last.call \in TransformNames /\ ~last.ok) =>
        /\ data = last.data
        /\ cleaning_history = last.history

\* Whether a call names a column the dataset df does not have, or an enum
\* value (strategy, method, target type, text operation) that does not
\* exist.
BadColumns(df, columns) == missing_cols(df, columns) # <<>>

BadParameters(call, a, df) ==
    CASE call = "remove_duplicates" ->
            a[1] \notin {"first", "last", "all"} \/ (~IsNone(a[2]) /\ BadColumns(df, a[2][1]))
      [] call = "handle_missing_values" ->
            \/ a[1] \notin {"drop"} \cup fill_strategies \cup other_strategies
            \/ (~IsNone(a[2]) /\ BadColumns(df, a[2][1]))
      [] call = "clean_text" ->
            BadColumns(df, a[1]) \/ ~(Range(a[2]) \subseteq text_operation_names)
      [] call = "convert_data_types" ->
            \/ BadColumns(df, mapping_keys(a[1]))
            \/ ~(Range(mapping_values(a[1])) \subseteq
                    {"numeric", "integer", "float", "string", "category", "datetime", "boolean"})
      [] call = "rename_columns" -> BadColumns(df, mapping_keys(a[1]))
      [] call = "reorder_columns" -> BadColumns(df, a[1])
      [] call = "remove_outliers" -> BadColumns(df, a[1]) \/ a[2] \notin {"iqr", "zscore"}
      [] call = "standardize_formats" -> BadColumns(df, mapping_keys(a[1]))
      [] call = "detect_and_fix_encoding_issues" -> ~IsNone(a[1]) /\ BadColumns(df, a[1][1])
      [] OTHER -> FALSE

\* C12: every Transform Library operation called with a column name that is
\* not in the dataset, or with an invalid enum value, fails with an error
\* and appends no history entry.
C12_InvalidArgument ==
    (last.call \in TransformNames /\ BadParameters(last.call, args, last.data)) =>
        /\ ~last.ok
        /\ cleaning_history = last.history

\* C13: every successful Transform Library call appends exactly one
\* Operation Record together with the resulting snapshot; apart from
\* construction and reset nothing else appends: not the auto-clean
\* orchestrator itself, nor undo, redo, quality analysis or summary.
C13_OneEntryPerTransform ==
    /\ Transformed =>
           /\ clock = last.clock + 1
           /\ NewestOperation.timestamp = clock
           /\ cleaning_history.data_snapshots[Len(cleaning_history.data_snapshots)] = data
    /\ last.call \in {"undo", "redo", "validate_data_quality", "get_data_summary"} =>
           /\ clock = last.clock
           /\ cleaning_history.operations = last.history.operations
    /\ last.call = "auto_clean_dataset" =>
           clock - last.clock =
               Cardinality({i \in 1..Len(steps) :
                               steps[i].appended /\ steps[i].name \in TransformNames})

\* C14: snapshot independence.  The content of every snapshot the ledger
\* retains is the content it had when it was stored: neither a later
\* transform that fills or assigns in place, nor the caller editing a dataset
\* the session returned, nor undo or redo changes it.
C14_SnapshotIndependence ==
    \A i \in 1..Len(cleaning_history.data_snapshots) :
        LET id == cleaning_history.data_snapshots[i]
        IN heap[id] = stored[id][1]

\* After a fill that changed cells in place and an undo, the caller has
\* edited the dataset the session holds as self.data.
C14_Witness ==
    /\ last.call = "caller_edit"
    /\ args[1] = data
    /\ cleaning_history.current_index < Len(cleaning_history.operations)
    /\ \E i \in 1..Len(cleaning_history.operations) :
           /\ cleaning_history.operations[i].operation_type = "handle_missing_values"
           /\ cleaning_history.operations[i].records_affected > 0

C16_AutoCleanLedgerEntries ==
    last.call = "auto_clean_dataset" =>
        \A i \in 1..Len(steps) :
            steps[i].changed => (steps[i].appended /\ steps[i].name \in TransformNames)

\* C17: applying remove_duplicates(strategy='first') twice in a row gives
\* the same dataset as applying it once, for every dataset and every subset,
\* and the second application reports records_affected == 0.
C17_DedupIdempotence ==
    (Called("remove_duplicates") /\ args[1] = "first") =>
        LET again == remove_duplicates(data, "first", args[2])
        IN /\ ~again.raised
           /\ again.data = data
           /\ again.records_affected = 0

\* C17 witness: a first-occurrence deduplication on a subset that removed
\* two rows of three equal ones.
C17_Witness ==
    /\ Called("remove_duplicates")
    /\ args = <<"first", Some(<<"age">>)>>
    /\ NRows(data) + 2 <= NRows(last.data)

\* C18: for the strategies drop, fill_mean, fill_median, fill_mode and
\* fill_custom the number of nulls in the targeted columns after the call is
\* at most the number before it, and records_affected is the difference,
\* never negative.
C18_MissingNeverAddsNulls ==
    (Called("handle_missing_values") /\ args[1] \in {"drop"} \cup fill_strategies) =>
        LET columns == IF IsNone(args[2]) THEN last.data.columns ELSE args[2][1]
            before == NullCount(last.data, columns)
            after == NullCount(data, columns)
        IN /\ after <= before
           /\ NewestOperation.records_affected = before - after
           /\ NewestOperation.records_affected >= 0

\* C18 witness: a fill that took effect on some but not all targeted nulls.
C18_Witness ==
    /\ Called("handle_missing_values")
    /\ args[1] = "fill_median"
    /\ NullCount(data, <<"age">>) < NullCount(last.data, <<"age">>)
    /\ NewestOperation.records_affected = 1

\* The rows (by position) that some targeted numeric column flags.
Flagged(df, columns, method, threshold2) ==
    UNION {col_outliers(df, c, method, threshold2) :
              c \in {d \in Range(columns) \cap Range(df.columns) :
                        DType(df, d) \in {"int64", "float64"}}}

\* C19: after a successful remove_outliers the row count is at most the
\* count before, and a row is removed exactly when at least one targeted
\* numeric column flags it as an outlier, also when the row labels are not
\* 0..N-1.
C19_OutlierRemovalExact ==
    Called("remove_outliers") =>
        LET before == last.data
            flagged == Flagged(before, args[1], args[2], args[3])
        IN /\ NRows(data) <= NRows(before)
           /\ data = TakeRows(before, Positions(NRows(before), (1..NRows(before)) \ flagged))

Unique(names) == \A i, j \in 1..Len(names) : names[i] = names[j] => i = j

\* C20: with unique input names the names stay unique after every
\* successful transform; rename_columns fails whenever its mapping would
\* leave two columns with the same name; a successful rename records
\* records_affected == 0.
C20_ColumnNamesUnique ==
    /\ (last.call \in TransformNames /\ last.ok) => Unique(data.columns)
    /\ (last.call = "rename_columns" /\ Unique(last.data.columns)
          /\ missing_cols(last.data, mapping_keys(args[1])) = <<>>
          /\ ~Unique([j \in 1..Len(last.data.columns) |->
                         renamed(args[1], last.data.columns[j])]))
           => ~last.ok
    /\ Called("rename_columns") => NewestOperation.records_affected = 0

\* C21: after a successful clean_text whose operation list holds
\* remove_special_chars, remove_numbers or remove_html_tags, every cell of
\* every named column that is not null has no whitespace at its ends and
\* no two whitespace characters in a row, whatever the order of the
\* operations and whether or not remove_extra_spaces is among them.
C21_CleanupPostCondition ==
    (/\ Called("clean_text")
     /\ Range(args[2]) \cap {"remove_special_chars", "remove_numbers", "remove_html_tags"} # {})
    => \A j \in 1..Len(args[1]), i \in 1..NRows(data) :
           LET cell == Column(data, args[1][j])[i]
           IN cell.k = "str" =>
                  /\ strip(cell.s) = cell.s
                  /\ \A m \in 1..(Len(cell.s) - 1) : ~(IsSpace(cell.s[m]) /\ IsSpace(cell.s[m + 1]))

\* A removal as the last of the operations, without remove_extra_spaces,
\* on a cell in which the removal leaves two blanks side by side.
C21_Witness ==
    /\ Called("clean_text")
    /\ args = <<<<"text">>, <<"lowercase", "remove_special_chars">>>>
    /\ Column(data, "text")[2] = StrCell(<<"a", " ", "b", " ", "1", " ", "c">>)

\* C22: after auto_clean_dataset(aggressive=False) the current dataset has
\* no more duplicate rows (rows equal to an earlier row) than it had before
\* the call.
C22_AutoCleanAddsNoDuplicates ==
    (Called("auto_clean_dataset") /\ args[1] = FALSE) =>
        NRows(data) - NRows(drop_duplicates(data, None, "first"))
            <= NRows(last.data) - NRows(drop_duplicates(last.data, None, "first"))

\* C23: after auto_clean_dataset(aggressive=False) the current dataset has
\* no more null cells than it had before the call, also when step 7
\* converts a text column of which some values are no numbers.
C23_AutoCleanAddsNoNulls ==
    (Called("auto_clean_dataset") /\ args[1] = FALSE) =>
        NullCount(data, data.columns) <= NullCount(last.data, last.data.columns)

\* C24: after k >= 1 calls of add_operation on a new CleaningHistory,
\* without eviction, current_index is k - 1; for k = 2 can_undo() holds and
\* can_redo() does not, and with current_index lowered by one can_redo()
\* holds.  The ledger of a session that has only run transforms so far has
\* had rt.n + 1 such calls: one by __init__ and one by each transform.
C24_LatestOperationIndex ==
    rt.phase = "transforms" =>
        /\ cleaning_history.current_index = (rt.n + 1) - 1
        /\ rt.n + 1 = 2 =>
               /\ can_undo(cleaning_history)
               /\ ~can_redo(cleaning_history)
               /\ can_redo([cleaning_history EXCEPT !.current_index = @ - 1])

\* C25: on a dataset with at least one cell validate_data_quality returns
\* overall_score = max(0, 100 - min(missing%, 30) - min(duplicate%, 20)
\* - 5 * (inconsistent-type columns) - 3 * (outlier columns)
\* - 2 * (text issues)), between 0 and 100, with the band message of that
\* score (below 60 poor, below 80 moderate, else good) as the first
\* recommendation, and changes neither the dataset nor the ledger.  The
\* score is compared times the number of cells.
C25_QualityScore ==
    (last.call = "validate_data_quality" /\ NRows(last.data) * Len(last.data.columns) > 0) =>
        LET report == validate_data_quality(last.data)
            cells == NRows(last.data) * Len(last.data.columns)
            score == report.overall_score
        IN /\ ~report.error
           /\ 0 <= score /\ score <= 100 * cells
           /\ Len(report.recommendations) >= 1
           /\ score < 60 * cells => report.recommendations[1] = "poor"
           /\ (60 * cells <= score /\ score < 80 * cells)
                  => report.recommendations[1] = "moderate"
           /\ 80 * cells <= score => report.recommendations[1] = "good"
           /\ data = last.data
           /\ cleaning_history = last.history

\* C26: with at least one snapshot in the ledger get_current_data returns
\* the snapshot at current_index when that index is in range and the
\* latest snapshot otherwise; it returns an empty dataset only when the
\* ledger holds no snapshot.  undo and redo assign self.data what
\* get_current_data returns for the ledger they leave.
C26_GetCurrentDataFallback ==
    (Undone \/ Redone) =>
        LET h == cleaning_history
            n == Len(h.data_snapshots)
        IN data = IF n = 0 THEN EmptyDataFrame
                  ELSE IF 0 <= h.current_index /\ h.current_index < n
                  THEN h.data_snapshots[h.current_index + 1]
                  ELSE h.data_snapshots[n]

\* C27: the ledger entries one successful auto_clean_dataset run appends
\* come in the order fix-encoding, remove_duplicates, clean_text,
\* handle_missing_values(fill_median), handle_missing_values(fill_mode),
\* remove_outliers, convert_data_types, each at most once; the fix-encoding
\* entry is always there and first, and a remove_outliers entry only when
\* aggressive is true.  The record the run closes with is not one of them.
C27_AutoCleanStepOrder ==
    Called("auto_clean_dataset") =>
        LET entries == SelectSeq(steps, LAMBDA s : s.appended /\ s.name # "auto_clean_dataset")
            order == <<"detect_and_fix_encoding_issues", "remove_duplicates", "clean_text",
                       "fill_median", "fill_mode", "remove_outliers", "convert_data_types">>
            kind(s) == IF s.name = "handle_missing_values" THEN s.parameters[1] ELSE s.name
            rank(s) == IF kind(s) \in Range(order) THEN LetterPos(order, kind(s)) ELSE 0
        IN /\ Len(entries) >= 1
           /\ rank(entries[1]) = 1
           /\ \A i \in 1..Len(entries) : rank(entries[i]) >= 1
           /\ \A i, j \in 1..Len(entries) : i < j => rank(entries[i]) < rank(entries[j])
           /\ ~args[1] => \A i \in 1..Len(entries) : entries[i].name # "remove_outliers"

\* A run that removes duplicates, then cleans text, then fills a numeric
\* column with its median.
C27_Witness ==
    /\ Called("auto_clean_dataset")
    /\ \E i, j, k \in 1..Len(steps) :
           /\ i < j /\ j < k
           /\ steps[i].name = "remove_duplicates" /\ steps[i].appended
           /\ steps[j].name = "clean_text" /\ steps[j].appended
           /\ steps[k].name = "handle_missing_values" /\ steps[k].appended
           /\ steps[k].parameters = <<"fill_median">>

\* C28: after k >= 1 successful undos in a row and then a successful
\* transform T, one further successful undo makes the current dataset equal
\* to the dataset T was applied to, whatever the earlier history.
C28_BranchConsistency ==
    (Undone /\ prev.transform /\ prev.undone) => data = prev.data

\* C28 witness: the undo of a transform that changed the dataset and started
\* a new branch where two earlier operations had been discarded.
C28_Witness ==
    /\ Undone
    /\ prev.transform
    /\ prev.undone
    /\ data = prev.data
    /\ last.data # data
    /\ LET h == last.history
       IN /\ h.current_index = 2
          /\ Len(h.operations) = 2
          /\ h.operations[2].timestamp >= h.operations[1].timestamp + 3

\* C29: while no transform has succeeded since construction or since the
\* last reset_to_original (the ledger has been appended to once), every
\* undo and redo call, successful or not, leaves the current dataset equal
\* to the original dataset.
C29_NoTransformStaysOriginal ==
    (appended = 1 /\ last.call \in {"undo", "redo"}) => data = original_data

\* C30: in every reachable state, whatever the interleaving of transforms,
\* undos followed by new transforms, redos and auto-cleans, the ledger stores
\* at most max_snapshots snapshots and never fewer snapshots than operations.
C30_BoundedSnapshots ==
    /\ Len(cleaning_history.data_snapshots) <= cleaning_history.max_snapshots
    /\ Len(cleaning_history.data_snapshots) >= Len(cleaning_history.operations)

\* C30 witness: an auto-clean run that started with redo available, found
\* the ledger full on the way and left it full, with more snapshots than
\* operations.
C30_Witness ==
    /\ Called("auto_clean_dataset")
    /\ can_redo(last.history)
    /\ appended > max_snapshots
    /\ Len(cleaning_history.data_snapshots) = max_snapshots
    /\ Len(cleaning_history.operations) < max_snapshots

====
